---- MODULE Spec2Model ----
(***************************************************************************)
(* A model of the MyRag retrieval core: the text chunker, the vector       *)
(* scorer, the catalog with its hybrid ranker, and the chat route with its *)
(* registry of abort controllers.                                          *)
(*                                                                         *)
(* Conventions.  A JavaScript string is a sequence of one-character        *)
(* strings.  A JavaScript number that the code compares or orders is kept  *)
(* in fixed point: similarities and keyword scores in thousandths, the     *)
(* combined score in ten-thousandths (6*v + 4*k), and NaN is a value of    *)
(* its own.  A call that can throw yields a record whose err field names   *)
(* the error ("" when it returned).                                        *)
(***************************************************************************)
EXTENDS Integers, Sequences, FiniteSets, TLC

\* ---------------------------------------------------------------- bounds
MaxTextLen == 4      \* longest chunk text drawn for the keyword scorer
MaxTerms == 2        \* most whitespace-separated terms in a drawn query
MaxChunks == 3       \* most chunks in a drawn catalog of the ranker
MaxTopK == 3         \* largest topK drawn for a direct hybridSearch call
MaxDocLen == 5       \* longest text drawn for chunkText
MaxChunkSize == 4    \* largest maxChunkSize drawn for chunkText
MaxOverlap == 2      \* largest overlapSize drawn for chunkText
MaxIterations == 8   \* loop iterations of chunkText that are followed
NSessions == 2       \* chat requests
NUploads == 2        \* upload requests
MaxTokens == 2       \* chunks the generator yields to one request
MaxChatChunks == 1   \* chunks in the catalog the chat route reads
MaxStoreChunks == 2  \* chunks in the catalogs of the store lifecycle
MaxDimensionChunks == 2  \* chunks in the catalogs of mixed embedding lengths
MaxBM25Words == 2    \* most words in a text indexed by BM25
MaxBM25Chunks == 3   \* most chunks indexed by BM25
MaxBM25TopK == 2     \* largest topK drawn for BM25.search
MaxCutLen == 6       \* longest text chunked with valid options
MaxCutOverlap == 3   \* largest overlapSize drawn with valid options
MaxCitations == 1    \* most citations in a response the page reads
MaxReadTokens == 2   \* most texts in a response the page reads

\* ------------------------------------------------------ program constants
DefaultMaxChunkSize == 1000   \* textChunker: maxChunkSize = 1000
DefaultOverlapSize == 200     \* textChunker: overlapSize = 200
MaxUploadChunks == 1000       \* upload/route.ts: if (textChunks.length > 1000)
BatchSize == 100              \* embeddings.ts: const batchSize = 100
MinTokenLen == 2              \* bm25.ts: filter(token => token.length > 2)
MinTermLen == 3      \* documentStore.ts: if (term.length < 3) continue
VectorWeight == 6    \* documentStore.ts: 0.6 * vectorScore
KeywordWeight == 4   \* documentStore.ts: 0.4 * keywordScore
ChatTopK == 3        \* chat/route.ts: hybridSearch(message, queryEmbedding, 3)
SentenceWindow == 200 \* textChunker: Math.max(startIndex, endIndex - 200)

\* A sequence given as a function, with its elements evaluated once.
Strict(s) == SubSeq(s, 1, Len(s))

Min(a, b) == IF a <= b THEN a ELSE b
Max(a, b) == IF a >= b THEN a ELSE b

\* ---------------------------------------------------------------- strings
\* String.prototype.toLowerCase on the model's alphabet.
LowerChar(c) == CASE c = "A" -> "a" [] c = "B" -> "b" [] OTHER -> c
toLowerCase(s) == Strict([i \in 1..Len(s) |-> LowerChar(s[i])])

\* The characters the regular expression class \s matches.
IsSpace(c) == c \in {" ", "\n"}

RECURSIVE SkipSpaces(_, _)
SkipSpaces(s, i) ==
    IF i <= Len(s) /\ IsSpace(s[i]) THEN SkipSpaces(s, i + 1) ELSE i

\* String.prototype.split(/\s+/): the pieces between maximal whitespace runs,
\* an empty piece before a leading run and after a trailing one included.
RECURSIVE SplitFrom(_, _, _)
SplitFrom(s, i, cur) ==
    IF i > Len(s) THEN <<cur>>
    ELSE IF IsSpace(s[i]) THEN <<cur>> \o SplitFrom(s, SkipSpaces(s, i), <<>>)
    ELSE SplitFrom(s, i + 1, Append(cur, s[i]))

SplitWs(s) == SplitFrom(s, 1, <<>>)

\* String.prototype.includes: term occurs in text as a literal substring.
includes(text, term) ==
    \E i \in 1..(Len(text) - Len(term) + 1) :
        SubSeq(text, i, i + Len(term) - 1) = term

\* String.prototype.trim.
RECURSIVE TrimEnd(_)
TrimEnd(s) ==
    IF s # <<>> /\ IsSpace(s[Len(s)]) THEN TrimEnd(SubSeq(s, 1, Len(s) - 1)) ELSE s

trim(s) == TrimEnd(SubSeq(s, SkipSpaces(s, 1), Len(s)))

\* ------------------------------------------------------------ new RegExp
\* new RegExp(term, 'gi') for patterns over letters and the quantifier "+".
\* The constructor throws a SyntaxError (nothing to repeat) when a "+" has no
\* atom before it.
RegexValid(term) ==
    \A i \in 1..Len(term) : term[i] = "+" => (i > 1 /\ term[i - 1] # "+")

RECURSIVE Atoms(_, _)
Atoms(term, i) ==
    IF i > Len(term) THEN <<>>
    ELSE IF i < Len(term) /\ term[i + 1] = "+"
         THEN <<[c |-> term[i], plus |-> TRUE]>> \o Atoms(term, i + 2)
         ELSE <<[c |-> term[i], plus |-> FALSE]>> \o Atoms(term, i + 1)

\* 'i' flag: characters are compared case-insensitively.
CharMatches(c, d) == LowerChar(c) = LowerChar(d)

RECURSIVE RunLen(_, _, _)
RunLen(c, text, pos) ==
    IF pos <= Len(text) /\ CharMatches(c, text[pos])
    THEN 1 + RunLen(c, text, pos + 1) ELSE 0

\* The position after the match of atoms that starts at pos, 0 when there is
\* none; a quantified atom is greedy and backtracks.
RECURSIVE MatchAt(_, _, _)
RECURSIVE GreedyTry(_, _, _, _)
GreedyTry(rest, text, pos, n) ==
    IF n = 0 THEN 0
    ELSE LET r == MatchAt(rest, text, pos + n)
         IN IF r # 0 THEN r ELSE GreedyTry(rest, text, pos, n - 1)

MatchAt(atoms, text, pos) ==
    IF atoms = <<>> THEN pos
    ELSE LET a == Head(atoms)
         IN IF a.plus
            THEN GreedyTry(Tail(atoms), text, pos, RunLen(a.c, text, pos))
            ELSE IF pos <= Len(text) /\ CharMatches(a.c, text[pos])
                 THEN MatchAt(Tail(atoms), text, pos + 1)
                 ELSE 0

\* String.prototype.match with a 'g' pattern: the successive non-overlapping
\* matches, scanning from the left; their number.
RECURSIVE CountMatches(_, _, _)
CountMatches(atoms, text, pos) ==
    IF pos > Len(text) THEN 0
    ELSE LET e == MatchAt(atoms, text, pos)
         IN IF e # 0 THEN 1 + CountMatches(atoms, text, e)
            ELSE CountMatches(atoms, text, pos + 1)

matchCount(term, text) == CountMatches(Atoms(term, 1), text, 1)

\* ---------------------------------------------------------------- numbers
NaN == [nan |-> TRUE, x |-> 0]
Num(x) == [nan |-> FALSE, x |-> x]

\* Math.log(1 + freq) in thousandths.
Ln1000(n) ==
    CASE n <= 1 -> 0 [] n = 2 -> 693 [] n = 3 -> 1099 [] n = 4 -> 1386
      [] n = 5 -> 1609 [] n = 6 -> 1792 [] n = 7 -> 1946 [] n = 8 -> 2079
      [] n = 9 -> 2197 [] OTHER -> 2303

\* The largest r in lo..hi with r*r <= n.
RECURSIVE ISqrtIn(_, _, _)
ISqrtIn(n, lo, hi) ==
    IF lo >= hi THEN lo
    ELSE LET mid == (lo + hi + 1) \div 2
         IN IF mid * mid <= n THEN ISqrtIn(n, mid, hi) ELSE ISqrtIn(n, lo, mid - 1)

RECURSIVE SumSeq(_)
SumSeq(s) == IF s = <<>> THEN 0 ELSE Head(s) + SumSeq(Tail(s))

\* ------------------------------------------------------------- embeddings
\* cosineSimilarity: throws on a length mismatch; otherwise dot / (|a| * |b|),
\* which is 0/0 = NaN when either vector has norm zero.
cosineSimilarity(vecA, vecB) ==
    IF Len(vecA) # Len(vecB)
    THEN [err |-> "Vectors must have the same length", val |-> NaN]
    ELSE LET dotProduct == SumSeq(Strict([i \in 1..Len(vecA) |-> vecA[i] * vecB[i]]))
             normA == SumSeq(Strict([i \in 1..Len(vecA) |-> vecA[i] * vecA[i]]))
             normB == SumSeq(Strict([i \in 1..Len(vecB) |-> vecB[i] * vecB[i]]))
             mag == ISqrtIn((1000000 * dotProduct * dotProduct) \div (normA * normB),
                            0, 1000)
         IN IF normA = 0 \/ normB = 0
            THEN [err |-> "", val |-> NaN]
            ELSE [err |-> "", val |-> Num(IF dotProduct < 0 THEN 0 - mag ELSE mag)]

\* ---------------------------------------------------------- documentStore
\* DocumentStore.getAllChunks: the chunks of every document, in map order.
RECURSIVE getAllChunks(_)
getAllChunks(docs) ==
    IF docs = <<>> THEN <<>> ELSE Head(docs).chunks \o getAllChunks(Tail(docs))

\* The indices of the query terms the keyword scorer does not skip.
UsedTerms(queryTerms) ==
    {i \in 1..Len(queryTerms) : Len(queryTerms[i]) >= MinTermLen}

\* DocumentStore.calculateKeywordScore, in thousandths.
calculateKeywordScore(query, text) ==
    LET queryTerms == SplitWs(toLowerCase(query))
        textLower == toLowerCase(text)
        used == UsedTerms(queryTerms)
        termFreq == Strict([i \in 1..Len(queryTerms) |->
                              IF i \in used THEN matchCount(queryTerms[i], textLower)
                              ELSE 0])
        matchedTerms == Cardinality({i \in used : termFreq[i] > 0})
        score == SumSeq(Strict([i \in 1..Len(queryTerms) |->
                            IF termFreq[i] > 0 THEN Ln1000(1 + termFreq[i]) ELSE 0]))
        n == Max(1, Len(queryTerms))
    IN IF \E i \in used : ~RegexValid(queryTerms[i])
       THEN [err |-> "SyntaxError", val |-> 0]
       ELSE [err |-> "",
             val |-> Min(1000, (score + 1000 * matchedTerms) \div (2 * n))]

\* The query terms generateExplanation lists: those of length >= 3 that the
\* lower-cased content includes, in query order.
MatchedTerms(query, content) ==
    SelectSeq(SplitWs(toLowerCase(query)),
              LAMBDA t : Len(t) >= MinTermLen /\ includes(toLowerCase(content), t))

Reason(text, terms) == [text |-> text, terms |-> terms]

\* The semantic clause of an explanation (no clause for NaN: every comparison
\* with NaN is false).
SemanticReasons(vectorScore) ==
    IF vectorScore.nan THEN <<>>
    ELSE IF vectorScore.x > 800 THEN <<Reason("Very high semantic match", <<>>)>>
    ELSE IF vectorScore.x > 600 THEN <<Reason("Good semantic relevance", <<>>)>>
    ELSE IF vectorScore.x > 400 THEN <<Reason("Moderate semantic relevance", <<>>)>>
    ELSE <<>>

\* The keyword clause: Contains: "t1", "t2" with the first two matched terms.
KeywordReasonsAnyScore(keywordScore, query, content) ==
    LET matchedTerms == MatchedTerms(query, content)
    IN IF matchedTerms # <<>>
       THEN <<Reason("Contains", SubSeq(matchedTerms, 1, Min(2, Len(matchedTerms))))>>
       ELSE <<>>

KeywordReasons(keywordScore, query, content) ==
    LET matchedTerms == MatchedTerms(query, content)
    IN IF keywordScore > 500 /\ matchedTerms # <<>>
       THEN <<Reason("Contains", SubSeq(matchedTerms, 1, Min(2, Len(matchedTerms))))>>
       ELSE <<>>

\* DocumentStore.generateExplanation: the reasons the code joins with '; '.
generateExplanation(vectorScore, keywordScore, query, content) ==
    LET reasons == SemanticReasons(vectorScore)
                   \o KeywordReasons(keywordScore, query, content)
    IN IF reasons # <<>> THEN reasons ELSE <<Reason("Related content", <<>>)>>

\* The terms an explanation names.
NamedTerms(explanation) ==
    UNION {{explanation[j].terms[i] : i \in 1..Len(explanation[j].terms)} :
           j \in 1..Len(explanation)}

\* The loop body of hybridSearch for one chunk: the scores, the explanation
\* and the error of the first call that throws ("" when none does).
ScoreChunk(chunk, query, queryEmbedding) ==
    LET vs == cosineSimilarity(queryEmbedding, chunk.embedding)
        ks == calculateKeywordScore(query, chunk.content)
        combinedScore ==
            IF vs.val.nan THEN NaN
            ELSE Num(VectorWeight * vs.val.x + KeywordWeight * ks.val)
    IN [err |-> IF vs.err # "" THEN vs.err ELSE ks.err,
        res |-> [chunk |-> chunk,
                 score |-> combinedScore,
                 vectorScore |-> vs.val,
                 keywordScore |-> ks.val,
                 explanation |->
                     generateExplanation(vs.val, ks.val, query, chunk.content)]]

\* The comparator (a, b) => b.score - a.score; Array.prototype.sort reads a
\* NaN result as +0.
compareFn(a, b) ==
    IF a.score.nan \/ b.score.nan THEN 0 ELSE b.score.x - a.score.x

\* Array.prototype.sort is stable: an element goes after every element the
\* comparator does not order after it.
RECURSIVE InsertSorted(_, _)
InsertSorted(sorted, x) ==
    IF sorted = <<>> THEN <<x>>
    ELSE IF compareFn(Head(sorted), x) <= 0
         THEN <<Head(sorted)>> \o InsertSorted(Tail(sorted), x)
         ELSE <<x>> \o sorted

RECURSIVE SortStable(_)
SortStable(s) ==
    IF s = <<>> THEN <<>>
    ELSE InsertSorted(SortStable(SubSeq(s, 1, Len(s) - 1)), s[Len(s)])

\* Whether the comparator is a consistent comparator for the elements of s
\* (ECMAScript: ties must be transitive; differences of numbers are).
ConsistentComparator(s) ==
    \A i, j, k \in 1..Len(s) :
        (compareFn(s[i], s[j]) = 0 /\ compareFn(s[j], s[k]) = 0)
            => compareFn(s[i], s[k]) = 0

\* results.sort(...): the stable order under a consistent comparator; with an
\* inconsistent one the order is implementation-defined, any permutation.
SortOutcomes(s) ==
    IF ConsistentComparator(s) THEN {SortStable(s)}
    ELSE {Strict([i \in 1..Len(s) |-> s[p[i]]]) : p \in Permutations(1..Len(s))}

\* Array.prototype.slice(0, topK).
slice0(s, topK) ==
    SubSeq(s, 1, IF topK < 0 THEN Max(Len(s) + topK, 0) ELSE Min(topK, Len(s)))

\* DocumentStore.hybridSearch: the outcomes of one call.
hybridSearch(docs, query, queryEmbedding, topK) ==
    LET allChunks == getAllChunks(docs)
        scored == Strict([i \in 1..Len(allChunks) |->
                             ScoreChunk(allChunks[i], query, queryEmbedding)])
        failing == {i \in 1..Len(allChunks) : scored[i].err # ""}
        first == CHOOSE i \in failing : \A j \in failing : i <= j
        results == Strict([i \in 1..Len(allChunks) |-> scored[i].res])
    IN IF Len(allChunks) = 0 THEN {[err |-> "", results |-> <<>>]}
       ELSE IF failing # {} THEN {[err |-> scored[first].err, results |-> <<>>]}
       ELSE {[err |-> "", results |-> slice0(r, topK)] : r \in SortOutcomes(results)}

\* DocumentStore.add: Map.set keeps the position of an id already present.
add(docs, document) ==
    IF \E i \in 1..Len(docs) : docs[i].id = document.id
    THEN [i \in 1..Len(docs) |->
             IF docs[i].id = document.id THEN document ELSE docs[i]]
    ELSE Append(docs, document)

\* DocumentStore.delete without its save: Map.delete.
MapDelete(docs, id) == SelectSeq(docs, LAMBDA d : d.id # id)

\* ------------------------------------------------------------ storage
\* A Date is its time value; JSON carries it as the ISO string of that value.
Date(time) == [time |-> time]

toISOString(date) == [iso |-> date.time]

ParseDate(string) == [time |-> string.iso]

\* The documents file: absent, a JSON array of serialized documents, or bytes
\* that are no JSON (what a write that failed part-way leaves behind).
NoFile == [kind |-> "none", docs |-> <<>>]

CorruptFile == [kind |-> "corrupt", docs |-> <<>>]

Serialize(doc) == [doc EXCEPT !.uploadedAt = toISOString(@)]

Snapshot(docs) ==
    [kind |-> "json", docs |-> [i \in 1..Len(docs) |-> Serialize(docs[i])]]

\* A variant that appends the documents to those of the file.
saveDocumentsAppend(file, docs, outcome) ==
    IF outcome = "written"
    THEN [kind |-> "json", docs |-> file.docs \o Snapshot(docs).docs]
    ELSE IF outcome = "truncated" THEN CorruptFile
    ELSE file

\* What fs and the serialization can do to one call of saveDocuments.
SaveOutcomes == {"written", "truncated", "unwritten"}

\* saveDocuments: the whole array replaces the file; an error raised by the
\* directory creation or by opening the file leaves the file as it was, one
\* raised part-way through the write leaves no JSON; both are caught and logged.
saveDocuments(file, docs, outcome) ==
    IF outcome = "written" THEN Snapshot(docs)
    ELSE IF outcome = "truncated" THEN CorruptFile
    ELSE file

\* loadDocuments: no file or no JSON gives no documents.
loadDocuments(file) ==
    IF file.kind = "json"
    THEN [i \in 1..Len(file.docs) |->
             [file.docs[i] EXCEPT !.uploadedAt = ParseDate(@)]]
    ELSE <<>>

\* ------------------------------------------------------------ textChunker
\* String.prototype.substring(a, b) with 0-based offsets: both are clamped to
\* 0..length and swapped when a > b.
substring(s, a, b) ==
    LET a1 == Max(0, Min(a, Len(s)))
        b1 == Max(0, Min(b, Len(s)))
    IN SubSeq(s, Min(a1, b1) + 1, Max(a1, b1))

\* String.prototype.lastIndexOf(pat): the last 0-based offset, -1 when none.
lastIndexOf(s, pat) ==
    LET hits == {i \in 0..(Len(s) - Len(pat)) : SubSeq(s, i + 1, i + Len(pat)) = pat}
    IN IF hits = {} THEN -1 ELSE CHOOSE i \in hits : \A j \in hits : j <= i

\* text.replace(/\s+/g, ' ').
RECURSIVE CollapseFrom(_, _)
CollapseFrom(s, i) ==
    IF i > Len(s) THEN <<>>
    ELSE IF IsSpace(s[i]) THEN <<" ">> \o CollapseFrom(s, SkipSpaces(s, i))
    ELSE <<s[i]>> \o CollapseFrom(s, i + 1)

\* A variant that collapses the runs and does not trim.
CollapseOnly(text) == CollapseFrom(text, 1)

normalizeWhitespace(text) == trim(CollapseFrom(text, 1))

\* The end offset of the chunk that starts at startIndex.
ChunkEnd(normalizedText, startIndex, maxChunkSize) ==
    LET endIndex == startIndex + maxChunkSize
        searchStart == Max(startIndex, endIndex - SentenceWindow)
        searchText == substring(normalizedText, searchStart, endIndex)
        lastPeriod == lastIndexOf(searchText, <<".", " ">>)
        lastExclamation == lastIndexOf(searchText, <<"!", " ">>)
        lastQuestion == lastIndexOf(searchText, <<"?", " ">>)
        lastSentenceEnd == Max(lastPeriod, Max(lastExclamation, lastQuestion))
    IN IF endIndex < Len(normalizedText)
       THEN IF lastSentenceEnd > 0 THEN searchStart + lastSentenceEnd + 2 ELSE endIndex
       ELSE Len(normalizedText)

\* A variant that also drops chunks of a single character.
PushChunkLong(chunks, chunk) == IF Len(chunk) > 1 THEN Append(chunks, chunk) ELSE chunks

\* chunks.push(chunk) unless the trimmed chunk is empty.
PushChunk(chunks, chunk) == IF Len(chunk) > 0 THEN Append(chunks, chunk) ELSE chunks

\* A variant without the test for progress.
NextStartPlain(startIndex, endIndex, overlapSize) == endIndex - overlapSize

\* A variant that leaves one character out after every cut.
NextStartSkip(startIndex, endIndex, overlapSize) == endIndex + 1

\* The start offset of the next iteration.
NextStart(startIndex, endIndex, overlapSize) ==
    LET nextStart == endIndex - overlapSize
    IN IF nextStart <= startIndex THEN endIndex ELSE nextStart

\* while (startIndex < normalizedText.length), run to its end.
RECURSIVE ChunkLoop(_, _, _, _, _)
ChunkLoop(normalizedText, maxChunkSize, overlapSize, startIndex, chunks) ==
    IF ~(startIndex < Len(normalizedText)) THEN chunks
    ELSE LET endIndex == ChunkEnd(normalizedText, startIndex, maxChunkSize)
             chunk == trim(substring(normalizedText, startIndex, endIndex))
         IN ChunkLoop(normalizedText, maxChunkSize, overlapSize,
                      NextStart(startIndex, endIndex, overlapSize),
                      PushChunk(chunks, chunk))

\* chunkText as a function of its arguments, for the calls that return.
chunkText(text, maxChunkSize, overlapSize) ==
    IF Len(text) = 0 \/ Len(trim(text)) = 0 THEN <<>>
    ELSE LET normalizedText == normalizeWhitespace(text)
         IN IF Len(normalizedText) <= maxChunkSize THEN <<normalizedText>>
            ELSE ChunkLoop(normalizedText, maxChunkSize, overlapSize, 0, <<>>)

\* ------------------------------------------------------------------ state
VARIABLES
    documents,       \* DocumentStore.documents: the documents in map order
    call,            \* the latest step, when it was a direct hybridSearch call
    ck,              \* one call of chunkText: its arguments, locals and position
    activeRequests,  \* chat/route.ts activeRequests: requestId -> controller
    sess,            \* the chat requests (one POST each), by session
    lastDelete,      \* the latest step, when it was a DELETE: id and status
    thrown,          \* the latest step, when it was a throw of the generator
    persisted,       \* the documents file on disk
    store,           \* globalThis.__documentStore: constructed, loads, last save
    up,              \* the upload requests (one POST each), by upload
    reader           \* the page reading one chat response: handleSubmit's locals

vars == <<documents, call, ck, activeRequests, sess, lastDelete, thrown,
          persisted, store, up, reader>>

Sessions == 1..NSessions
RequestIds == {"r1", "r2"}
None == 0            \* no controller under a requestId

NoCall ==
    [op |-> "none", query |-> <<>>, queryEmbedding |-> <<>>, topK |-> 0,
     err |-> "", results |-> <<>>]

NoDelete == [requestId |-> "", status |-> 0]

NoThrow == [session |-> 0, error |-> "", readable |-> FALSE]

\* No operation of the store yet.
NoOp == [name |-> "", id |-> "", saved |-> ""]

\* The store once getDocumentStore has built it: loadDocuments has run once and
\* no operation was called yet.
Constructed == [constructed |-> TRUE, loads |-> 1, op |-> NoOp]

Uploads == 1..NUploads

\* The multipart request of an upload: whether formData() resolves, whether it
\* holds a file, whether file.size exceeds 10 MB, whether parseFile resolves
\* and with which text.  A text too long to spell out is given by the number
\* of chunks chunkText cuts it into (long > 0).
UploadFile(form, present, oversize, parse, content, long) ==
    [form |-> form, present |-> present, oversize |-> oversize, parse |-> parse,
     content |-> content, long |-> long]

NoUpload == UploadFile("", FALSE, FALSE, "", <<>>, 0)

\* An upload request that has not arrived.
IdleUpload ==
    [pc |-> "idle", file |-> NoUpload, textChunks |-> <<>>, documentId |-> "",
     i |-> 0, embeddings |-> <<>>, requests |-> 0, status |-> 0]

\* The page not reading a response.  body is the bytes of the response, pos
\* the bytes read so far, pending the bytes the decoder holds; sent and tokens
\* are history: the metadata the route serialised and the texts it enqueued.
NoMetadata == [type |-> "", citations |-> 0]

IdleReader ==
    [pc |-> "idle", body |-> <<>>, pos |-> 0, pending |-> <<>>,
     assistantMessage |-> <<>>, metadata |-> NoMetadata,
     metadataCollected |-> FALSE, sent |-> NoMetadata, tokens |-> <<>>]

\* ranges is history: the startIndex and endIndex of every iteration of the
\* loop so far, and whether the iteration pushed its chunk.
IdleChunker ==
    [pc |-> "idle", text |-> <<>>, maxChunkSize |-> 0, overlapSize |-> 0,
     normalizedText |-> <<>>, chunks |-> <<>>, startIndex |-> 0,
     prevStart |-> 0, iterations |-> 0, ranges |-> <<>>]

\* A request not yet received.  out is every frame enqueued to the response
\* stream.  The fields after status are history: the chunks in the catalog
\* when the request read it, whether a query embedding was requested, what the
\* generator yielded, and whether DELETE found the request's controller.
IdleSession ==
    [pc |-> "idle", requestId |-> "", message |-> <<>>, aborted |-> FALSE,
     hasDocuments |-> FALSE, results |-> <<>>, out |-> <<>>,
     stream |-> "none", streamError |-> "", status |-> 0,
     chunksAtStart |-> 0, embedRequested |-> FALSE, gen |-> <<>>,
     cancelled |-> FALSE]

\* ---------------------------------------------------------- drawn inputs
\* Texts over an alphabet, up to a length.
TextsUpTo(chars, n) == UNION {[1..k -> chars] : k \in 0..n}

RECURSIVE JoinTerms(_)
JoinTerms(ts) ==
    IF Len(ts) = 1 THEN ts[1] ELSE ts[1] \o <<" ">> \o JoinTerms(Tail(ts))

\* Queries of up to n terms of a pool, separated by one space.
QueriesOf(pool, n) == {JoinTerms(ts) : ts \in UNION {[1..k -> pool] : k \in 1..n}}

\* Query terms: plain ones, one with an upper-case letter, one shorter than
\* three characters, the empty one (a leading or trailing space), and two with
\* the regular-expression quantifier, of which "+ab" is no valid pattern.
TermPool ==
    {<<>>, <<"a", "b">>, <<"a", "a", "b">>, <<"a", "b", "a">>, <<"b", "A", "b">>,
     <<"a", "+", "b">>, <<"+", "a", "b">>}

ContentChars == {"a", "B", "+"}

\* Embeddings: two axes, a diagonal, and the zero vector.
EmbeddingPool == {<<1, 0>>, <<0, 1>>, <<1, 1>>, <<0, 0>>}

\* array[index] of JavaScript, 0-based: undefined past the end, shown as the
\* empty vector.
Undefined == <<>>

At(array, index) == IF index + 1 \in DOMAIN array THEN array[index + 1] ELSE Undefined

Chunk(docId, i, content, embedding) ==
    [id |-> <<docId, i>>, content |-> content, embedding |-> embedding,
     chunkIndex |-> i - 1]

\* A document as the upload route builds it: chunk i carries content i and
\* embedding i.
Document(docId, contents, embeddings) ==
    [id |-> docId,
     uploadedAt |-> Date(0),
     chunks |-> [i \in 1..Len(contents) |->
                    Chunk(docId, i, contents[i], At(embeddings, i - 1))]]

\* Catalogs of documents with the given ids, with up to maxChunks chunks in all.
RECURSIVE CatalogsFrom(_, _, _, _)
CatalogsFrom(ids, contentPool, embeddingPool, maxChunks) ==
    IF ids = <<>> \/ maxChunks = 0 THEN {<<>>}
    ELSE {<<>>} \cup
         UNION {{<<Document(Head(ids), contents, embeddings)>> \o rest :
                    contents \in [1..k -> contentPool],
                    embeddings \in [1..k -> embeddingPool],
                    rest \in CatalogsFrom(Tail(ids), contentPool, embeddingPool,
                                          maxChunks - k)} :
                k \in 1..maxChunks}

\* ------------------------------------------------- the ranker, called alone
\* documentStore.hybridSearch(query, queryEmbedding, topK) on the catalog.
Search(queryPool, embeddingPool, topKs) ==
    /\ \E query \in queryPool, queryEmbedding \in embeddingPool, topK \in topKs :
        \E out \in hybridSearch(documents, query, queryEmbedding, topK) :
            call' = [op |-> "hybridSearch", query |-> query,
                     queryEmbedding |-> queryEmbedding, topK |-> topK,
                     err |-> out.err, results |-> out.results]
    /\ lastDelete' = NoDelete
    /\ thrown' = NoThrow
    /\ UNCHANGED <<documents, persisted, store, up, ck, reader, activeRequests, sess>>

RankContents == {<<"a", "a", "b">>, <<"B">>}
RankQueries == {<<"a", "a", "b">>, <<"b">>, <<"+", "a", "b">>}

InitRest ==
    /\ call = NoCall
    /\ ck = IdleChunker
    /\ reader = IdleReader
    /\ activeRequests = [r \in RequestIds |-> None]
    /\ sess = [s \in Sessions |-> IdleSession]
    /\ lastDelete = NoDelete
    /\ thrown = NoThrow
    /\ persisted = (IF documents = <<>> THEN NoFile ELSE Snapshot(documents))
    /\ store = Constructed
    /\ up = [u \in Uploads |-> IdleUpload]

InitSearch ==
    /\ documents \in CatalogsFrom(<<"d1", "d2">>, RankContents,
                                  {<<1, 0>>, <<1, 1>>, <<0, 0>>}, MaxChunks)
    /\ InitRest

\* One call in each behaviour.
NextSearch ==
    /\ call.op = "none"
    /\ Search(RankQueries, EmbeddingPool, 0..MaxTopK)

SpecSearch == InitSearch /\ [][NextSearch]_vars

\* The keyword scorer and the explanation, through hybridSearch on a catalog
\* of one chunk: every content up to MaxTextLen, every query of up to MaxTerms
\* terms of the pool.
InitKeyword ==
    /\ documents \in CatalogsFrom(<<"d1">>, TextsUpTo(ContentChars, MaxTextLen),
                                  {<<0, 1>>}, 1)
    /\ InitRest

NextKeyword ==
    /\ call.op = "none"
    /\ Search(QueriesOf(TermPool, MaxTerms), {<<1, 0>>}, {ChatTopK})

SpecKeyword == InitKeyword /\ [][NextKeyword]_vars

\* The score of a chunk of the catalog under the latest call.
ScoreOf(chunk) == ScoreChunk(chunk, call.query, call.queryEmbedding).res.score

\* a >= b on scores; NaN is not compared.
ScoreGeq(a, b) == a.nan \/ b.nan \/ a.x >= b.x

\* C6: for every catalog, query, query embedding of matching dimension and
\* topK >= 0, hybridSearch returns min(topK, number of chunks) results, each
\* with score = 0.6 * vectorScore + 0.4 * keywordScore, in non-increasing
\* score order, and no chunk left out has a strictly higher score than a chunk
\* returned.  A query term that is no valid pattern makes the call throw, and
\* a zero embedding makes a score NaN, which leaves the order open.
C6_RankedTopK ==
    call.op = "hybridSearch" =>
        LET allChunks == getAllChunks(documents)
            results == call.results
            returned == {results[i].chunk : i \in 1..Len(results)}
        IN /\ call.err = ""
           /\ Len(results) = Min(call.topK, Len(allChunks))
           /\ \A i \in 1..Len(results) :
                /\ \E j \in 1..Len(allChunks) : results[i].chunk = allChunks[j]
                /\ results[i].vectorScore.nan
                   \/ results[i].score =
                        Num(VectorWeight * results[i].vectorScore.x
                            + KeywordWeight * results[i].keywordScore)
           /\ \A i, j \in 1..Len(results) :
                i < j => ScoreGeq(results[i].score, results[j].score)
           /\ \A j \in 1..Len(allChunks), i \in 1..Len(results) :
                allChunks[j] \notin returned =>
                    ScoreGeq(results[i].score, ScoreOf(allChunks[j]))

\* The terms of the latest call's query, as both scorers split them.
CallTerms == SplitWs(toLowerCase(call.query))

\* Term i has length >= 3 and occurs case-insensitively in the content.
Occurs(i, content) ==
    /\ Len(CallTerms[i]) >= MinTermLen
    /\ includes(toLowerCase(content), CallTerms[i])

Messages == {<<"a", "a", "b">>}
QueryEmbeddings == {<<1, 0>>, <<1>>}
\* The k-th chunk of a generator carries the k-th letter; the first chunk
\* (the one that opens the completion) may carry no text.
Letters == <<"a", "b", "c", "d">>
TokenTexts(k) == IF k = 1 THEN {<<>>, <<Letters[k]>>} ELSE {<<Letters[k]>>}
CallErrors == {"AbortError", "APIError", "AuthenticationError"}
StreamErrors == {"AbortError", "APIError"}

\* activeRequests.get(requestId); a falsy requestId is never a key.
Lookup(requestId) ==
    IF requestId \in RequestIds THEN activeRequests[requestId] ELSE None

\* A variant that keeps the entry.
UnregisterNothing(registry, requestId) == registry

\* if (requestId) activeRequests.delete(requestId)
Unregister(registry, requestId) ==
    IF requestId \in RequestIds THEN [registry EXCEPT ![requestId] = None]
    ELSE registry

\* if (requestId) activeRequests.set(requestId, controller)
Register(registry, requestId, controller) ==
    IF requestId \in RequestIds THEN [registry EXCEPT ![requestId] = controller]
    ELSE registry

\* The status of the response POST's catch block returns.
CatchStatus(error) ==
    IF error = "AbortError" THEN 499
    ELSE IF error = "AuthenticationError" THEN 401
    ELSE 500

MetaFrame(citations) == [kind |-> "meta", citations |-> citations, text |-> <<>>]
TextFrame(text) == [kind |-> "text", citations |-> <<>>, text |-> text]

\* const citations = relevantResults.map(...)
Citations(relevantResults) ==
    [i \in 1..Len(relevantResults) |->
        [index |-> i,
         chunkId |-> relevantResults[i].chunk.id,
         confidence |-> relevantResults[i].score,
         vectorScore |-> relevantResults[i].vectorScore,
         keywordScore |-> relevantResults[i].keywordScore,
         explanation |-> relevantResults[i].explanation]]

\* A variant that sends the metadata header whatever the citations.
PreambleAlways(relevantResults) == <<MetaFrame(Citations(relevantResults))>>

\* The metadata header customStream.start enqueues first.
Preamble(relevantResults) ==
    IF Len(Citations(relevantResults)) > 0
    THEN <<MetaFrame(Citations(relevantResults))>>
    ELSE <<>>

\* A variant that leaves the stream open.
CloseNothing(sn) == sn

\* controller.close() on a readable stream: the stream ends after the frames
\* enqueued.  (On a stream no longer readable it throws.)
Close(sn) == [sn EXCEPT !.stream = "closed"]

\* controller.error(e) on a readable stream.  (On a stream no longer readable
\* it does nothing.)
Error(sn, e) == [sn EXCEPT !.stream = "errored", !.streamError = e]

\* A variant in which the signal is not tripped.
AbortNothing(sn) == sn

\* controller.abort() of the request's AbortController.
Abort(sn) == [sn EXCEPT !.aborted = TRUE]

\* customStream.start has returned.
Ended(sn) == [sn EXCEPT !.pc = "done"]

\* const hasDocuments = allChunks.length > 0
HasDocumentsAlways(allChunks) == TRUE

HasDocuments(allChunks) == Len(allChunks) > 0

\* DocumentStore.persist after a change of the catalog: the file takes the
\* outcome of saveDocuments, which never throws.
persist(outcome) == persisted' = saveDocuments(persisted, documents', outcome)

\* The latest operation of the store, the id it was given, and how its save
\* went ("none" when it made no save).
Did(name, id, saved) ==
    store' = [store EXCEPT !.op = [name |-> name, id |-> id, saved |-> saved]]

\* The step is no direct search, no DELETE and no throw of the generator.
Quiet ==
    /\ call' = NoCall
    /\ lastDelete' = NoDelete
    /\ thrown' = NoThrow
    /\ UNCHANGED <<ck, reader>>

\* POST, up to its first await (sessions are numbered in order of arrival and
\* request ids in order of first use): the controller is registered, the catalog is
\* read, and the request waits for the query embedding, or with no chunks for
\* the generation call.
PostStart(s, requestId, message) ==
    /\ sess[s].pc = "idle"
    /\ \A t \in 1..(s - 1) : sess[t].pc # "idle"
    /\ requestId = "r2" => \E t \in Sessions : sess[t].requestId = "r1"
    /\ LET allChunks == getAllChunks(documents)
           hasDocuments == HasDocuments(allChunks)
       IN sess' = [sess EXCEPT ![s] =
                    [@ EXCEPT !.pc = IF hasDocuments THEN "embedding" ELSE "creating",
                              !.requestId = requestId,
                              !.message = message,
                              !.chunksAtStart = Len(allChunks),
                              !.hasDocuments = hasDocuments,
                              !.embedRequested = hasDocuments]]
    /\ activeRequests' = Register(activeRequests, requestId, s)
    /\ UNCHANGED <<documents, persisted, store, up>>
    /\ Quiet

\* generateEmbedding(message) resolves: hybridSearch runs on the catalog as it
\* is now; when it throws, POST's catch block answers.
EmbeddingReturns(s, queryEmbedding) ==
    /\ sess[s].pc = "embedding"
    /\ \E found \in hybridSearch(documents, sess[s].message, queryEmbedding, ChatTopK) :
        sess' = [sess EXCEPT ![s] =
                    IF found.err # ""
                    THEN [@ EXCEPT !.pc = "done", !.status = CatchStatus(found.err)]
                    ELSE [@ EXCEPT !.pc = "creating", !.results = found.results]]
    /\ UNCHANGED <<documents, persisted, store, up, activeRequests>>
    /\ Quiet

\* openai.embeddings.create rejects with the error: generateEmbedding catches
\* it and throws new Error('Failed to generate embedding'), which has neither
\* the name AbortError nor a status, and POST's catch block answers.
EmbeddingFails(s, error) ==
    /\ sess[s].pc = "embedding"
    /\ error # "AbortError"
    /\ sess' = [sess EXCEPT ![s] = [@ EXCEPT !.pc = "done",
                                             !.status = CatchStatus("Error")]]
    /\ UNCHANGED <<documents, persisted, store, up, activeRequests>>
    /\ Quiet

\* openai.chat.completions.create resolves (its signal is not tripped): the
\* stream is constructed, start() enqueues the metadata header and waits for
\* the generator; the response is returned.
CreateReturns(s) ==
    /\ sess[s].pc = "creating"
    /\ ~sess[s].aborted
    /\ sess' = [sess EXCEPT ![s] = [@ EXCEPT !.pc = "streaming",
                                             !.stream = "readable",
                                             !.out = Preamble(sess[s].results),
                                             !.status = 200]]
    /\ UNCHANGED <<documents, persisted, store, up, activeRequests>>
    /\ Quiet

\* openai.chat.completions.create rejects, with an abort only when its signal
\* is tripped: POST's catch block answers.
CreateFails(s, error) ==
    /\ sess[s].pc = "creating"
    /\ error = "AbortError" => sess[s].aborted
    /\ sess' = [sess EXCEPT ![s] = [@ EXCEPT !.pc = "done",
                                             !.status = CatchStatus(error)]]
    /\ UNCHANGED <<documents, persisted, store, up, activeRequests>>
    /\ Quiet

\* The finally block of customStream.start.
Finally(requestId) == activeRequests' = Unregister(activeRequests, requestId)

\* The generator yields a chunk (its signal is not tripped).  Its text, when
\* not empty, is enqueued; on a stream the consumer has cancelled enqueue
\* throws a TypeError, which the catch block hands to controller.error (no
\* effect there), and the finally block runs.
GenYields(s, text) ==
    /\ sess[s].pc = "streaming"
    /\ ~sess[s].aborted
    /\ Len(sess[s].gen) < MaxTokens
    /\ LET sn == [sess[s] EXCEPT !.gen = Append(@, text)]
       IN IF text = <<>>
          THEN /\ sess' = [sess EXCEPT ![s] = sn]
               /\ UNCHANGED activeRequests
          ELSE IF sn.stream = "readable"
          THEN /\ sess' = [sess EXCEPT ![s] =
                            [sn EXCEPT !.out = Append(@, TextFrame(text))]]
               /\ UNCHANGED activeRequests
          ELSE /\ sess' = [sess EXCEPT ![s] = Ended(sn)]
               /\ Finally(sn.requestId)
    /\ UNCHANGED <<documents, persisted, store, up>>
    /\ Quiet

\* The generator is exhausted: controller.close(), then the finally block.
\* (After a DELETE the generator may also end this way instead of throwing.)
GenEnds(s) ==
    /\ sess[s].pc = "streaming"
    /\ LET sn == sess[s]
       IN sess' = [sess EXCEPT ![s] =
                    Ended(IF sn.stream = "readable" THEN Close(sn) ELSE sn)]
    /\ Finally(sess[s].requestId)
    /\ UNCHANGED <<documents, persisted, store, up>>
    /\ Quiet

\* The generator throws, an abort only when its signal is tripped: the catch
\* block closes the stream on an AbortError and errors it otherwise, then the
\* finally block runs.
GenThrows(s, error) ==
    /\ sess[s].pc = "streaming"
    /\ error = "AbortError" => sess[s].aborted
    /\ LET sn == sess[s]
       IN sess' = [sess EXCEPT ![s] =
                    Ended(IF sn.stream # "readable" THEN sn
                          ELSE IF error = "AbortError" THEN Close(sn)
                          ELSE Error(sn, error))]
    /\ Finally(sess[s].requestId)
    /\ thrown' = [session |-> s, error |-> error,
                  readable |-> (sess[s].stream = "readable")]
    /\ call' = NoCall
    /\ lastDelete' = NoDelete
    /\ UNCHANGED <<documents, persisted, store, up, ck, reader>>

\* The consumer cancels the response body while it is readable: the stream
\* closes and customStream.cancel() runs.
ConsumerCancels(s) ==
    /\ sess[s].stream = "readable"
    /\ sess' = [sess EXCEPT ![s] = [@ EXCEPT !.stream = "closed"]]
    /\ activeRequests' = Unregister(activeRequests, sess[s].requestId)
    /\ UNCHANGED <<documents, persisted, store, up>>
    /\ Quiet

\* The DELETE handler for a request id.
DELETE(requestId) ==
    /\ LET controller == Lookup(requestId)
       IN IF controller # None
          THEN /\ sess' = [sess EXCEPT ![controller] =
                            [Abort(@) EXCEPT !.cancelled = TRUE]]
               /\ activeRequests' = Unregister(activeRequests, requestId)
               /\ lastDelete' = [requestId |-> requestId, status |-> 200]
          ELSE /\ lastDelete' = [requestId |-> requestId, status |-> 404]
               /\ UNCHANGED <<sess, activeRequests>>
    /\ call' = NoCall
    /\ thrown' = NoThrow
    /\ UNCHANGED <<documents, persisted, store, up, ck, reader>>

\* The upload route commits a document: documentStore.add(document).
AddDocument(ids, contentPool, embeddingPool, maxChunks, outcomes) ==
    /\ store.constructed
    /\ \E docId \in ids, k \in 1..maxChunks :
        \E contents \in [1..k -> contentPool], embeddings \in [1..k -> embeddingPool] :
            LET next == add(documents, Document(docId, contents, embeddings))
            IN /\ Len(getAllChunks(next)) <= maxChunks
               /\ documents' = next
               /\ \E outcome \in outcomes :
                    persist(outcome) /\ Did("add", docId, outcome)
    /\ UNCHANGED <<activeRequests, sess, up>>
    /\ Quiet

\* Inputs of hybridSearch when called alone: a query whose term is no valid
\* pattern; the zero embedding and one of another dimension than the catalog's.
SearchQueries == {<<"+", "a", "b">>}
SearchEmbeddings == {<<0, 0>>, <<1>>}

Init ==
    /\ documents = <<>>
    /\ InitRest

Next ==
    \/ \E s \in Sessions, requestId \in RequestIds \cup {""}, message \in Messages :
            PostStart(s, requestId, message)
    \/ \E s \in Sessions, queryEmbedding \in QueryEmbeddings :
            EmbeddingReturns(s, queryEmbedding)
    \/ \E s \in Sessions, error \in CallErrors : EmbeddingFails(s, error)
    \/ \E s \in Sessions : CreateReturns(s)
    \/ \E s \in Sessions, error \in CallErrors : CreateFails(s, error)
    \/ \E s \in Sessions : \E text \in TokenTexts(Len(sess[s].gen) + 1) :
            GenYields(s, text)
    \/ \E s \in Sessions : GenEnds(s)
    \/ \E s \in Sessions, error \in StreamErrors : GenThrows(s, error)
    \/ \E s \in Sessions : ConsumerCancels(s)
    \/ \E requestId \in RequestIds : DELETE(requestId)
    \/ AddDocument({"d1"}, {<<"a", "a", "b">>}, {<<1, 0>>}, MaxChatChunks,
                   {"written"})
    \/ Search(SearchQueries, SearchEmbeddings, {ChatTopK})

Spec == Init /\ [][Next]_vars

\* A request that has ended: its response was returned with an error status,
\* or customStream.start has returned.
HasEnded(s) == sess[s].pc = "done"

\* C1: a chat request that registered its controller under its requestId
\* leaves the registry without that entry once it has ended, however it ends:
\* generator exhausted, cancelled, generator error, or a failure before the
\* response stream is opened.  POST's catch block does not touch the registry.
C1_EndedUnregistered ==
    \A s \in Sessions :
        (HasEnded(s) /\ sess[s].requestId \in RequestIds) =>
            activeRequests[sess[s].requestId] # s

\* The content frames of a response stream.
ContentFrames(frames) == SelectSeq(frames, LAMBDA f : f.kind = "text")

\* C2: when DELETE finds the controller of a request that has not finished,
\* whether it waits for the query embedding or the generation call or is
\* streaming, no content frame is enqueued to that request's response stream
\* from then on, and the requestId is not in the registry after the DELETE.
C2_NoTokenAfterCancel ==
    [][\A s \in Sessions :
        /\ sess[s].cancelled =>
                ContentFrames(sess'[s].out) = ContentFrames(sess[s].out)
        /\ (~sess[s].cancelled /\ sess'[s].cancelled) =>
                /\ sess'[s].aborted
                /\ sess'[s].out = sess[s].out
                /\ activeRequests'[sess[s].requestId] = None]_vars

\* A request was cancelled by DELETE while streaming, after a content frame,
\* and has ended.
C2_Witness ==
    \E s \in Sessions :
        /\ sess[s].cancelled
        /\ HasEnded(s)
        /\ sess[s].status = 200
        /\ Len(ContentFrames(sess[s].out)) >= 1

RECURSIVE TokenFrames(_)
TokenFrames(gen) ==
    IF gen = <<>> THEN <<>>
    ELSE (IF Head(gen) = <<>> THEN <<>> ELSE <<TextFrame(Head(gen))>>)
         \o TokenFrames(Tail(gen))

IsPrefix(a, b) == Len(a) <= Len(b) /\ a = SubSeq(b, 1, Len(a))

\* C4: the frames enqueued to a request's response stream are the metadata
\* header, once and first, exactly when retrieval returned a result, followed
\* by the generator's non-empty texts in the order it yielded them and nothing
\* else.  (After the consumer cancelled, the text that makes enqueue throw is
\* the only one missing.)
C4_PreambleThenTokens ==
    \A s \in Sessions :
        LET full == (IF Len(sess[s].results) > 0
                     THEN <<MetaFrame(Citations(sess[s].results))>> ELSE <<>>)
                    \o TokenFrames(sess[s].gen)
        IN sess[s].status = 200 =>
            /\ IsPrefix(sess[s].out, full)
            /\ Len(full) - Len(sess[s].out) <= 1
            /\ sess[s].stream = "readable" => sess[s].out = full
            /\ Len(SelectSeq(sess[s].out, LAMBDA f : f.kind = "meta"))
                    = IF Len(sess[s].results) > 0 THEN 1 ELSE 0

\* A request with a retrieval result streamed the header and two texts, and
\* the generator is exhausted.
C4_Witness ==
    \E s \in Sessions :
        /\ HasEnded(s)
        /\ Len(sess[s].results) > 0
        /\ Len(sess[s].out) = 3
        /\ Len(sess[s].gen) = 2

\* C5: when the generator throws an AbortError while the response stream is
\* readable, the stream is closed and carries no error; when it throws another
\* error, the stream is errored with that error; either way the request's
\* controller is not in the registry afterwards.
C5_AbortClosesErrorErrors ==
    thrown # NoThrow =>
        LET sn == sess[thrown.session]
        IN /\ HasEnded(thrown.session)
           /\ sn.requestId \in RequestIds => activeRequests[sn.requestId] = None
           /\ thrown.readable =>
                IF thrown.error = "AbortError"
                THEN sn.stream = "closed" /\ sn.streamError = ""
                ELSE sn.stream = "errored" /\ sn.streamError = thrown.error

\* The generator of a cancelled request threw an AbortError after a content
\* frame, with the stream readable.
C5_Witness ==
    /\ thrown.error = "AbortError"
    /\ thrown.readable
    /\ Len(ContentFrames(sess[thrown.session].out)) >= 1

\* C7: with no chunk in the catalog, hybridSearch returns the empty sequence
\* and no error, whatever the query and the query embedding; and a chat
\* request that finds no chunk computes hasDocuments = false, requests no
\* query embedding, has no results, and its stream carries the generator's
\* texts without a metadata header.
C7_EmptyCatalog ==
    /\ (call.op = "hybridSearch" /\ getAllChunks(documents) = <<>>) =>
            (call.err = "" /\ call.results = <<>>)
    /\ \A s \in Sessions :
        (sess[s].pc # "idle" /\ sess[s].chunksAtStart = 0) =>
            /\ ~sess[s].hasDocuments
            /\ ~sess[s].embedRequested
            /\ sess[s].pc # "embedding"
            /\ sess[s].results = <<>>
            /\ sess[s].stream = "readable" => sess[s].out = TokenFrames(sess[s].gen)
            /\ \A i \in 1..Len(sess[s].out) : sess[s].out[i].kind = "text"

\* hybridSearch was called on the empty catalog with a query term that is no
\* valid pattern, and a chat request that found no chunk has streamed a text.
C7_Witness ==
    /\ call.op = "hybridSearch"
    /\ getAllChunks(documents) = <<>>
    /\ ~RegexValid(call.query)
    /\ \E s \in Sessions :
        /\ sess[s].chunksAtStart = 0
        /\ Len(sess[s].out) >= 1

\* ------------------------------------------------------- chunkText, called
ChunkChars == {"a", ".", "!", " "}

\* if (!text || text.trim().length === 0) return []; the single-chunk return;
\* otherwise the loop is entered at offset 0.
ChunkEnter ==
    /\ ck.pc = "start"
    /\ LET normalizedText == normalizeWhitespace(ck.text)
       IN ck' = IF Len(ck.text) = 0 \/ Len(trim(ck.text)) = 0
                THEN [ck EXCEPT !.pc = "done", !.chunks = <<>>]
                ELSE IF Len(normalizedText) <= ck.maxChunkSize
                THEN [ck EXCEPT !.pc = "done", !.normalizedText = normalizedText,
                                !.chunks = <<normalizedText>>]
                ELSE [ck EXCEPT !.pc = "loop", !.normalizedText = normalizedText,
                                !.chunks = <<>>, !.startIndex = 0]
    /\ UNCHANGED <<documents, persisted, store, up, call, activeRequests, sess, lastDelete, thrown, reader>>

\* One iteration of while (startIndex < normalizedText.length).
ChunkIterate ==
    /\ ck.pc = "loop"
    /\ ck.startIndex < Len(ck.normalizedText)
    /\ ck.iterations < MaxIterations
    /\ LET endIndex == ChunkEnd(ck.normalizedText, ck.startIndex, ck.maxChunkSize)
           chunk == trim(substring(ck.normalizedText, ck.startIndex, endIndex))
       IN ck' = [ck EXCEPT !.chunks = PushChunk(ck.chunks, chunk),
                           !.startIndex = NextStart(ck.startIndex, endIndex,
                                                    ck.overlapSize),
                           !.prevStart = ck.startIndex,
                           !.iterations = ck.iterations + 1,
                           !.ranges = Append(ck.ranges,
                                             [start |-> ck.startIndex,
                                              end |-> endIndex,
                                              pushed |-> Len(chunk) > 0])]
    /\ UNCHANGED <<documents, persisted, store, up, call, activeRequests, sess, lastDelete, thrown, reader>>

\* The loop condition is false: return chunks.
ChunkReturn ==
    /\ ck.pc = "loop"
    /\ ~(ck.startIndex < Len(ck.normalizedText))
    /\ ck' = [ck EXCEPT !.pc = "done"]
    /\ UNCHANGED <<documents, persisted, store, up, call, activeRequests, sess, lastDelete, thrown, reader>>

InitChunk ==
    /\ documents = <<>>
    /\ call = NoCall
    /\ activeRequests = [r \in RequestIds |-> None]
    /\ sess = [s \in Sessions |-> IdleSession]
    /\ lastDelete = NoDelete
    /\ thrown = NoThrow
    /\ persisted = NoFile
    /\ store = Constructed
    /\ up = [u \in Uploads |-> IdleUpload]
    /\ reader = IdleReader
    /\ \E text \in TextsUpTo(ChunkChars, MaxDocLen),
          maxChunkSize \in -1..MaxChunkSize, overlapSize \in -2..MaxOverlap :
          ck = [IdleChunker EXCEPT !.pc = "start", !.text = text,
                                   !.maxChunkSize = maxChunkSize,
                                   !.overlapSize = overlapSize]

NextChunk == ChunkEnter \/ ChunkIterate \/ ChunkReturn

SpecChunk == InitChunk /\ [][NextChunk]_vars

\* chunkText called with a maxChunkSize of at least 1 and an overlapSize of at
\* least 0, on texts of letters, full stops and spaces.
CutChars == {"a", ".", " "}

InitCut ==
    /\ documents = <<>>
    /\ call = NoCall
    /\ activeRequests = [r \in RequestIds |-> None]
    /\ sess = [s \in Sessions |-> IdleSession]
    /\ lastDelete = NoDelete
    /\ thrown = NoThrow
    /\ persisted = NoFile
    /\ store = Constructed
    /\ up = [u \in Uploads |-> IdleUpload]
    /\ reader = IdleReader
    /\ \E text \in TextsUpTo(CutChars, MaxCutLen),
          maxChunkSize \in 1..MaxChunkSize, overlapSize \in 0..MaxCutOverlap :
          ck = [IdleChunker EXCEPT !.pc = "start", !.text = text,
                                   !.maxChunkSize = maxChunkSize,
                                   !.overlapSize = overlapSize]

SpecCut == InitCut /\ [][NextChunk]_vars

\* C9 as stated: chunkText returns at least one chunk for every non-empty
\* input.  A text of spaces only is non-empty and returns no chunk.
C9_NonEmptyHasChunk ==
    (ck.pc = "done" /\ Len(ck.text) > 0) => Len(ck.chunks) >= 1

\* C9: with maxChunkSize >= 1 (the default included), chunkText returns at
\* least one chunk for every text that has a character that is not whitespace:
\* the loop runs at most once per character of the normalized text, and the
\* returned list is not empty.  For an empty or whitespace-only text it returns
\* no chunk.
C9_NonBlankHasChunk ==
    /\ (ck.pc = "done" /\ Len(trim(ck.text)) = 0) => ck.chunks = <<>>
    /\ (ck.pc = "done" /\ Len(trim(ck.text)) > 0 /\ ck.maxChunkSize >= 1) =>
            Len(ck.chunks) >= 1
    /\ (ck.pc = "loop" /\ ck.maxChunkSize >= 1) =>
            /\ ck.iterations <= ck.startIndex
            /\ ck.iterations <= Len(ck.normalizedText)

\* A text with a character that is not whitespace went through the loop, one
\* iteration pushed nothing (a chunk of one space), and the call returned.
C9_Witness ==
    /\ ck.pc = "done"
    /\ Len(trim(ck.text)) > 0
    /\ ck.maxChunkSize >= 1
    /\ ck.iterations > Len(ck.chunks)
    /\ Len(ck.chunks) >= 2

\* C10: every iteration of the chunking loop strictly increases the start
\* offset (so that the loop terminates for every maxChunkSize and
\* overlapSize, maxChunkSize = 0 included).  With maxChunkSize = 0 the end
\* offset equals the start offset and the start offset stays where it is.
C10_StartIncreases ==
    ck.iterations > 0 => ck.startIndex > ck.prevStart

\* The whitespace-normalized form of a text: its words, one space between.
Words(text) == SelectSeq(SplitWs(text), LAMBDA w : w # <<>>)
NormalForm(text) == IF Words(text) = <<>> THEN <<>> ELSE JoinTerms(Words(text))

\* C11: for every text whose whitespace-normalized form is non-empty and has
\* length <= maxChunkSize, chunkText returns exactly one chunk, equal to the
\* normalized text.
C11_ShortTextOneChunk ==
    (ck.pc # "start" /\ Len(NormalForm(ck.text)) \in 1..ck.maxChunkSize) =>
        /\ ck.pc = "done"
        /\ ck.chunks = <<NormalForm(ck.text)>>

\* A text with a leading space and a run of two spaces inside was returned as
\* one chunk.
C11_Witness ==
    /\ ck.pc = "done"
    /\ Len(ck.chunks) = 1
    /\ ck.text[1] = " "
    /\ Len(ck.text) > Len(ck.chunks[1]) + 1

\* s occurs in t as a contiguous substring.
IsSubstring(s, t) == \E i \in 0..(Len(t) - Len(s)) : SubSeq(t, i + 1, i + Len(s)) = s

DocumentId(u) == "d" \o ToString(u)

\* The vector the embedding service returns for the k-th text of an upload; the
\* vectors of different texts differ, so that their order can be observed.
EmbeddingOf(k) == <<k>>

\* response.data of the batch texts.slice(i, i + batchSize), in input order.
Response(texts, i) ==
    [j \in 1..(Min(i + BatchSize, Len(texts)) - i) |-> EmbeddingOf(i + j)]

\* A variant that puts the batch in front of the embeddings collected so far.
PushBatchFront(embeddings, response) == response \o embeddings

\* embeddings.push(...response.data.map(d => d.embedding))
PushBatch(embeddings, response) == embeddings \o response

\* A variant that ends the loop after any batch.
LoopDoneEarly(i, texts) == TRUE

\* The for loop of generateEmbeddings ends: !(i < texts.length).
LoopDone(i, texts) == ~(i < Len(texts))

\* A variant that also rejects MaxUploadChunks chunks.
TooManyChunksFrom(textChunks) == Len(textChunks) >= MaxUploadChunks

\* if (textChunks.length > 1000)
TooManyChunks(textChunks) == Len(textChunks) > MaxUploadChunks

\* if (!content || content.trim().length === 0)
NoContent(content) == Len(content) = 0 \/ Len(trim(content)) = 0

\* chunkText(content) with the default options; a long text is cut into the
\* number of chunks the file names, each shown by one character.
TextChunksOf(file) ==
    IF file.long > 0 THEN [k \in 1..file.long |-> <<"a">>]
    ELSE chunkText(file.content, DefaultMaxChunkSize, DefaultOverlapSize)

\* An upload step is no direct search, no DELETE, no throw of the generator,
\* and no step of a chat request.
UploadQuiet ==
    /\ Quiet
    /\ UNCHANGED <<activeRequests, sess>>

\* POST up to await parseFile: formData() rejects (500), no file (400), a file
\* over 10 MB (400).  Uploads are numbered in order of arrival.
UploadStart(u, file) ==
    /\ up[u].pc = "idle"
    /\ \A v \in Uploads : v < u => up[v].pc # "idle"
    /\ up' = [up EXCEPT ![u] =
                IF file.form = "throws"
                THEN [@ EXCEPT !.pc = "done", !.file = file, !.status = 500]
                ELSE IF ~file.present \/ file.oversize
                THEN [@ EXCEPT !.pc = "done", !.file = file, !.status = 400]
                ELSE [@ EXCEPT !.pc = "parsing", !.file = file]]
    /\ UNCHANGED <<documents, persisted, store>>
    /\ UploadQuiet

\* parseFile rejects: the catch answers 500.
ParseFails(u) ==
    /\ up[u].pc = "parsing"
    /\ up[u].file.parse = "throws"
    /\ up' = [up EXCEPT ![u] = [@ EXCEPT !.pc = "done", !.status = 500]]
    /\ UNCHANGED <<documents, persisted, store>>
    /\ UploadQuiet

\* The end of a successful upload: the document is built from the chunks and
\* the embeddings, documentStore.add sets and saves it, and 200 is answered.
Finish(u, rec) ==
    /\ documents' = add(documents,
                        Document(rec.documentId, rec.textChunks, rec.embeddings))
    /\ \E outcome \in SaveOutcomes :
          persist(outcome) /\ Did("add", rec.documentId, outcome)
    /\ up' = [up EXCEPT ![u] = [rec EXCEPT !.pc = "done", !.status = 200]]

\* parseFile resolves: the content check, chunkText, the chunk count check, and
\* generateEmbeddings up to the first await of embeddings.create.
ParseReturns(u) ==
    /\ up[u].pc = "parsing"
    /\ up[u].file.parse = "ok"
    /\ LET content == up[u].file.content
           textChunks == TextChunksOf(up[u].file)
           rec == [up[u] EXCEPT !.textChunks = textChunks,
                                !.documentId = DocumentId(u)]
       IN IF NoContent(content)
          THEN /\ up' = [up EXCEPT ![u] = [@ EXCEPT !.pc = "done", !.status = 400]]
               /\ UNCHANGED <<documents, persisted, store>>
          ELSE IF TooManyChunks(textChunks)
          THEN /\ up' = [up EXCEPT ![u] = [@ EXCEPT !.pc = "done", !.status = 400,
                                                     !.textChunks = textChunks]]
               /\ UNCHANGED <<documents, persisted, store>>
          ELSE IF LoopDone(0, textChunks)
          THEN Finish(u, rec)
          ELSE /\ up' = [up EXCEPT ![u] = [rec EXCEPT !.pc = "embedding",
                                                      !.requests = 1]]
               /\ UNCHANGED <<documents, persisted, store>>
    /\ UploadQuiet

\* embeddings.create resolves for the batch at offset i: its vectors are
\* pushed, and the next batch is requested or the upload finishes.
BatchReturns(u) ==
    /\ up[u].pc = "embedding"
    /\ LET rec == [up[u] EXCEPT
                      !.embeddings = PushBatch(@, Response(up[u].textChunks, up[u].i)),
                      !.i = @ + BatchSize]
       IN IF LoopDone(rec.i, rec.textChunks)
          THEN Finish(u, rec)
          ELSE /\ up' = [up EXCEPT ![u] = [rec EXCEPT !.requests = @ + 1]]
               /\ UNCHANGED <<documents, persisted, store>>
    /\ UploadQuiet

\* embeddings.create rejects for a batch: generateEmbeddings throws "Failed to
\* generate embeddings" and the catch answers 500.
BatchFails(u) ==
    /\ up[u].pc = "embedding"
    /\ up' = [up EXCEPT ![u] = [@ EXCEPT !.pc = "done", !.status = 500]]
    /\ UNCHANGED <<documents, persisted, store>>
    /\ UploadQuiet

\* GET: documentStore.getAll() and getAllChunks(), read in one synchronous run.
GET ==
    /\ call' = [op |-> "list", documents |-> documents,
                chunks |-> getAllChunks(documents)]
    /\ lastDelete' = NoDelete
    /\ thrown' = NoThrow
    /\ UNCHANGED <<documents, persisted, store, up, ck, reader, activeRequests, sess>>

\* DocumentStore.delete(id): the save runs only when the id was present.
DeleteDocument(id) ==
    /\ store.constructed
    /\ documents' = MapDelete(documents, id)
    /\ IF \E i \in 1..Len(documents) : documents[i].id = id
       THEN \E outcome \in SaveOutcomes :
               persist(outcome) /\ Did("delete", id, outcome)
       ELSE UNCHANGED persisted /\ Did("delete", id, "none")
    /\ UNCHANGED up
    /\ UploadQuiet

\* DocumentStore.clear()
ClearDocuments ==
    /\ store.constructed
    /\ documents' = <<>>
    /\ \E outcome \in SaveOutcomes : persist(outcome) /\ Did("clear", "", outcome)
    /\ UNCHANGED up
    /\ UploadQuiet

\* The requests drawn for an upload: formData() rejecting, no file, an oversize
\* file, a file parseFile rejects, an empty and a blank text, a short text, and
\* long texts of MaxUploadChunks chunks and of one more.
UploadFiles ==
    {UploadFile("throws", FALSE, FALSE, "", <<>>, 0),
     UploadFile("ok", FALSE, FALSE, "", <<>>, 0),
     UploadFile("ok", TRUE, TRUE, "", <<>>, 0),
     UploadFile("ok", TRUE, FALSE, "throws", <<>>, 0),
     UploadFile("ok", TRUE, FALSE, "ok", <<>>, 0),
     UploadFile("ok", TRUE, FALSE, "ok", <<" ", " ">>, 0),
     UploadFile("ok", TRUE, FALSE, "ok", <<" ", "a", ".">>, 0),
     UploadFile("ok", TRUE, FALSE, "ok", <<"a">>, MaxUploadChunks),
     UploadFile("ok", TRUE, FALSE, "ok", <<"a">>, MaxUploadChunks + 1)}

InitUpload ==
    /\ documents = <<>>
    /\ InitRest

NextUpload ==
    \/ \E u \in Uploads, file \in UploadFiles : UploadStart(u, file)
    \/ \E u \in Uploads : ParseFails(u)
    \/ \E u \in Uploads : ParseReturns(u)
    \/ \E u \in Uploads : BatchReturns(u)
    \/ \E u \in Uploads : BatchFails(u)
    \/ GET
    \/ \E u \in Uploads : DeleteDocument(DocumentId(u))
    \/ ClearDocuments

SpecUpload == InitUpload /\ [][NextUpload]_vars

\* C13: when parseFile has resolved, an upload whose text is empty or blank, or
\* is cut into more than MaxUploadChunks chunks, is answered 400 in that step
\* with no embedding request made and with the catalog and the documents file
\* as they were; an upload of exactly MaxUploadChunks chunks is not answered
\* 400 and goes on to its first embedding request.
C13_BlankOrTooManyRejected ==
    [][\A u \in Uploads :
        (up[u].pc = "parsing" /\ up[u].file.parse = "ok" /\ up'[u].pc # "parsing") =>
            LET file == up[u].file
                n == Len(TextChunksOf(file))
            IN /\ (NoContent(file.content) \/ n > MaxUploadChunks) =>
                      /\ up'[u].pc = "done"
                      /\ up'[u].status = 400
                      /\ up'[u].requests = 0
                      /\ documents' = documents
                      /\ persisted' = persisted
               /\ (~NoContent(file.content) /\ n = MaxUploadChunks) =>
                      /\ up'[u].pc = "embedding"
                      /\ up'[u].status = 0
                      /\ up'[u].requests = 1]_vars

\* An upload of MaxUploadChunks + 1 chunks was rejected and one of
\* MaxUploadChunks chunks was stored.
C13_Witness ==
    \E u, v \in Uploads :
        /\ Len(up[u].textChunks) = MaxUploadChunks + 1
        /\ up[u].status = 400
        /\ up[u].requests = 0
        /\ Len(up[v].textChunks) = MaxUploadChunks
        /\ up[v].status = 200

\* The step ends upload u.
Ends(u) == up[u].pc # "done" /\ up'[u].pc = "done"

\* C14: a step of an upload that does not end it, or that ends it with another
\* status than 200, leaves the catalog as it was; a step that ends it with 200
\* appends one document under an id the catalog did not hold, whose chunks are
\* the chunks of chunkText in order, the k-th with the embedding returned for
\* the k-th text and with chunkIndex k - 1.
C14_AllOrNothing ==
    [][\A u \in Uploads :
        /\ (up'[u] # up[u] /\ ~(Ends(u) /\ up'[u].status = 200)) =>
               documents' = documents
        /\ (Ends(u) /\ up'[u].status = 200) =>
               LET texts == TextChunksOf(up[u].file)
                   doc == documents'[Len(documents')]
               IN /\ Len(documents') = Len(documents) + 1
                  /\ SubSeq(documents', 1, Len(documents)) = documents
                  /\ \A i \in 1..Len(documents) : documents[i].id # doc.id
                  /\ Len(doc.chunks) = Len(texts)
                  /\ \A k \in 1..Len(texts) :
                        /\ doc.chunks[k].content = texts[k]
                        /\ doc.chunks[k].embedding = EmbeddingOf(k)
                        /\ doc.chunks[k].chunkIndex = k - 1]_vars

\* An upload of several batches was stored after another upload had failed in
\* a later batch than its first.
C14_Witness ==
    \E u, v \in Uploads :
        /\ up[u].status = 200
        /\ Len(up[u].textChunks) > BatchSize
        /\ up[v].status = 500
        /\ up[v].requests >= 2
        /\ Len(documents) = 1
        /\ Len(documents[1].chunks) = Len(up[u].textChunks)

\* The document is the whole document of the upload that made it: all the
\* chunks of chunkText, each with the embedding returned for it.
Whole(d) ==
    \E u \in Uploads :
        /\ up[u].documentId = d.id
        /\ LET texts == TextChunksOf(up[u].file)
           IN /\ Len(d.chunks) = Len(texts)
              /\ \A k \in 1..Len(texts) :
                    /\ d.chunks[k].content = texts[k]
                    /\ d.chunks[k].embedding = EmbeddingOf(k)

\* C15: at every point of every interleaving of uploads, deletions and list
\* requests the catalog, which is what getAll, getAllChunks and hybridSearch
\* read at that point, holds only whole documents; and what a list request has
\* read is a list of whole documents together with exactly their chunks.
C15_ReadsSeeWholeDocuments ==
    /\ \A i \in 1..Len(documents) : Whole(documents[i])
    /\ call.op = "list" =>
          /\ \A i \in 1..Len(call.documents) : Whole(call.documents[i])
          /\ \A j \in 1..Len(call.chunks) :
                \E i \in 1..Len(call.documents) :
                    LET d == call.documents[i]
                        k == call.chunks[j].chunkIndex + 1
                    IN k \in 1..Len(d.chunks) /\ d.chunks[k] = call.chunks[j]
          /\ Len(call.chunks) =
                SumSeq([i \in 1..Len(call.documents) |-> Len(call.documents[i].chunks)])

\* A list request has read a document of several batches while another upload
\* holds part of its embeddings.
C15_Witness ==
    /\ call.op = "list"
    /\ Len(call.documents) = 1
    /\ Len(call.chunks) > BatchSize
    /\ \E v \in Uploads :
          /\ up[v].pc = "embedding"
          /\ up[v].i > 0
          /\ up[v].i < Len(up[v].textChunks)

\* ------------------------------------------------------------ store lifecycle
\* A variant that builds a store at every evaluation of the module.
NeedsStoreAlways(g) == TRUE

\* if (!globalThis.__documentStore)
NeedsStore(g) == ~g.constructed

\* for (const doc of docs) this.documents.set(doc.id, doc)
RECURSIVE SetAll(_, _)
SetAll(docs, loaded) ==
    IF loaded = <<>> THEN docs ELSE SetAll(add(docs, Head(loaded)), Tail(loaded))

\* DocumentStore.initialize: an empty map is filled from the file.
initialize(docs, file) ==
    IF Len(docs) = 0 THEN SetAll(docs, loadDocuments(file)) ELSE docs

\* One evaluation of the module documentStore.ts (the first import, or a hot
\* reload): getDocumentStore builds and fills a store only when globalThis
\* holds none, and returns the store of globalThis.
Evaluate ==
    /\ IF NeedsStore(store)
       THEN /\ documents' = initialize(<<>>, persisted)
            /\ store' = [constructed |-> TRUE, loads |-> store.loads + 1,
                         op |-> [name |-> "evaluate", id |-> "", saved |-> "none"]]
       ELSE /\ Did("evaluate", "", "none")
            /\ UNCHANGED documents
    /\ UNCHANGED <<persisted, up>>
    /\ UploadQuiet

StoreIds == {"d1", "d2"}

\* A process that has not yet evaluated the module, over a file that an earlier
\* process left: none, one that is no JSON, or a snapshot of its catalog.
InitStore ==
    /\ documents = <<>>
    /\ call = NoCall
    /\ ck = IdleChunker
    /\ reader = IdleReader
    /\ activeRequests = [r \in RequestIds |-> None]
    /\ sess = [s \in Sessions |-> IdleSession]
    /\ lastDelete = NoDelete
    /\ thrown = NoThrow
    /\ up = [u \in Uploads |-> IdleUpload]
    /\ store = [constructed |-> FALSE, loads |-> 0, op |-> NoOp]
    /\ persisted \in {NoFile, CorruptFile} \cup
                     {Snapshot(c) : c \in CatalogsFrom(<<"d1", "d2">>, {<<"a">>},
                                                       {<<1>>}, MaxStoreChunks)}

NextStore ==
    \/ Evaluate
    \/ AddDocument(StoreIds, {<<"a">>}, {<<1>>, <<0>>}, MaxStoreChunks, SaveOutcomes)
    \/ \E id \in StoreIds : DeleteDocument(id)
    \/ ClearDocuments

SpecStore == InitStore /\ [][NextStore]_vars

\* The documents of the catalog other than the one under id, in order.
Others(docs, id) == SelectSeq(docs, LAMBDA d : d.id # id)

\* The file is a JSON array of exactly the documents, in order, each with its
\* chunks and with its date as the ISO string of the same time.
FileHolds(file, docs) ==
    /\ file.kind = "json"
    /\ Len(file.docs) = Len(docs)
    /\ \A i \in 1..Len(docs) :
          /\ file.docs[i].id = docs[i].id
          /\ file.docs[i].chunks = docs[i].chunks
          /\ file.docs[i].uploadedAt.iso = docs[i].uploadedAt.time

WordChars == {"a", "b", "A", "B"}

\* replace(/[^\w\s]/g, ' ')
ReplacePunctuation(s) ==
    Strict([i \in 1..Len(s) |->
               IF s[i] \in WordChars \/ IsSpace(s[i]) THEN s[i] ELSE " "])

\* BM25.tokenize: lower case, punctuation to spaces, split at whitespace, and
\* only the pieces longer than two characters.
tokenize(text) ==
    SelectSeq(SplitWs(ReplacePunctuation(toLowerCase(text))),
              LAMBDA token : Len(token) > MinTokenLen)

\* The constructor: each document with its tokens, in the order given.
BM25(docs) ==
    [i \in 1..Len(docs) |->
        [id |-> docs[i].id, content |-> docs[i].content,
         tokens |-> tokenize(docs[i].content)]]

\* The sum of the token counts; avgDocLength is totalLength / documents.length.
totalLength(index) == SumSeq([i \in 1..Len(index) |-> Len(index[i].tokens)])

\* docSet.size: the number of different ids of documents that hold the term.
docFreq(index, term) ==
    Cardinality({index[i].id : i \in {j \in 1..Len(index) :
                                        \E p \in 1..Len(index[j].tokens) :
                                            index[j].tokens[p] = term}})

\* A variant without the + 1: Math.log((N - docFreq + 0.5) / (docFreq + 0.5)).
idfPlain(index, term) ==
    LET N == Len(index)
    IN Ln1000(2 * N - 2 * docFreq(index, term) + 1)
         - Ln1000(2 * docFreq(index, term) + 1)

\* BM25.idf in thousandths: Math.log((N - docFreq + 0.5) / (docFreq + 0.5) + 1),
\* which is ln((2N + 2) / (2 docFreq + 1)).
idf(index, term) ==
    Ln1000(2 * Len(index) + 2) - Ln1000(2 * docFreq(index, term) + 1)

\* A variant whose numerator is k1 + 1 alone.
TermScoreFlat(idfScore, termFreq, docLength, total, N) ==
    (idfScore * 20 * total) \div (8 * termFreq * total + 3 * total + 9 * docLength * N)

\* idfScore * (numerator / denominator) with k1 = 1.5, b = 0.75 and
\* lengthNorm = docLength * N / total: termFreq * 2.5 over
\* termFreq + 1.5 * (0.25 + 0.75 * lengthNorm), both multiplied by 8 * total.
TermScore(idfScore, termFreq, docLength, total, N) ==
    (idfScore * 20 * termFreq * total)
        \div (8 * termFreq * total + 3 * total + 9 * docLength * N)

\* docTokens.filter(t => t === queryTerm).length
termFreq(docTokens, queryTerm) ==
    Len(SelectSeq(docTokens, LAMBDA t : t = queryTerm))

\* BM25.score in thousandths: the sum over the query tokens, in order, of the
\* term scores of those that occur in the document.
RECURSIVE score(_, _, _, _)
score(index, docTokens, queryTokens, docLength) ==
    IF queryTokens = <<>> THEN 0
    ELSE LET queryTerm == Head(queryTokens)
             tf == termFreq(docTokens, queryTerm)
             rest == score(index, docTokens, Tail(queryTokens), docLength)
         IN IF tf = 0 THEN rest
            ELSE TermScore(idf(index, queryTerm), tf, docLength,
                           totalLength(index), Len(index)) + rest

\* BM25.search: the scores in document order, sorted by falling score (the
\* scores are numbers, so the sort is the stable one), cut to topK, and only
\* then filtered to the positive ones.
search(index, query, topK) ==
    LET queryTokens == tokenize(query)
        scores == [i \in 1..Len(index) |->
                      [id |-> index[i].id,
                       score |-> Num(score(index, index[i].tokens, queryTokens,
                                           Len(index[i].tokens)))]]
    IN SelectSeq(slice0(SortStable(scores), topK), LAMBDA result : result.score.x > 0)

\* One call of search on the index built from the chunks of the catalog.
BM25Search(queryPool, topKs) ==
    /\ \E query \in queryPool, topK \in topKs :
          call' = [op |-> "bm25", query |-> query, topK |-> topK,
                   results |-> search(BM25(getAllChunks(documents)), query, topK)]
    /\ lastDelete' = NoDelete
    /\ thrown' = NoThrow
    /\ UNCHANGED <<documents, persisted, store, up, ck, reader, activeRequests, sess>>

\* Words of the indexed texts: a token, one that is another token once lowered
\* and stripped of its punctuation, and one too short to be a token.
BM25Words == {<<"a", "a", "b">>, <<"A", "b", "b", ".">>, <<"a", "b">>}

BM25Texts == {<<>>} \cup QueriesOf(BM25Words, MaxBM25Words)

BM25Queries ==
    {<<>>, <<"a", "a", "b", "!">>, <<"A", "B", "B", " ", "a", "a", "b">>,
     <<"a", "b", "b", " ", "a", "b">>}

InitBM25 ==
    /\ documents \in CatalogsFrom(<<"d1">>, BM25Texts, {<<1>>}, MaxBM25Chunks)
    /\ InitRest

\* One call in each behaviour.
NextBM25 ==
    /\ call.op = "none"
    /\ BM25Search(BM25Queries, -1..MaxBM25TopK)

SpecBM25 == InitBM25 /\ [][NextBM25]_vars

\* The index of the call, and the scores of its documents for its query.
CallIndex == BM25(getAllChunks(documents))

CallScores ==
    LET index == CallIndex
        queryTokens == tokenize(call.query)
    IN [i \in 1..Len(index) |->
           score(index, index[i].tokens, queryTokens, Len(index[i].tokens))]

\* The documents that hold a token of the query.
HoldQueryToken ==
    LET index == CallIndex
        queryTokens == tokenize(call.query)
    IN {i \in 1..Len(index) :
           \E p \in 1..Len(index[i].tokens), q \in 1..Len(queryTokens) :
               index[i].tokens[p] = queryTokens[q]}

\* The results are the positive documents limited to the topK best: each
\* result is a document with its score, which is positive; they are
\* min(topK, number of positive documents) different documents in order of
\* falling score; no document left out scores above one returned; and the
\* list is the one got by filtering the sorted scores and then cutting to topK.
BestPositive ==
    LET r == call.results
        index == CallIndex
        scores == CallScores
        positive == {i \in 1..Len(index) : scores[i] > 0}
        returned == {i \in 1..Len(index) : \E j \in 1..Len(r) : r[j].id = index[i].id}
        sorted == SortStable([i \in 1..Len(index) |->
                                 [id |-> index[i].id, score |-> Num(scores[i])]])
    IN /\ \A j \in 1..Len(r) :
            \E i \in positive : r[j].id = index[i].id /\ r[j].score.x = scores[i]
       /\ \A j, k \in 1..Len(r) : j < k => r[j].id # r[k].id /\ r[j].score.x >= r[k].score.x
       /\ Len(r) = Min(Max(call.topK, 0), Cardinality(positive))
       /\ \A i \in positive \ returned : \A j \in 1..Len(r) : scores[i] <= r[j].score.x
       /\ r = slice0(SelectSeq(sorted, LAMBDA x : x.score.x > 0), call.topK)

\* The documents of positive score are those that hold a token of the query.
PositiveIffHolds ==
    LET scores == CallScores
    IN {i \in 1..Len(scores) : scores[i] > 0} = HoldQueryToken

\* C18 as stated: for every topK, search returns the positive documents, which
\* are those holding a query token, by falling score and limited to the topK
\* best, and equals filtering first and cutting to topK afterwards.
C18_SearchAnyTopK == call.op = "bm25" => (PositiveIffHolds /\ BestPositive)

\* C18, for topK >= 0: search returns the positive documents, which are those
\* holding a query token, by falling score and limited to the topK best, and
\* equals filtering first and cutting to topK afterwards.
C18_SearchTopK ==
    (call.op = "bm25" /\ call.topK >= 0) => (PositiveIffHolds /\ BestPositive)

\* Three documents, two of positive and different score and one of score 0,
\* searched with topK = 1.
C18_Witness ==
    /\ call.op = "bm25"
    /\ call.topK = 1
    /\ Len(call.results) = 1
    /\ Len(CallScores) = 3
    /\ \E i, j, k \in 1..3 :
          /\ CallScores[i] > CallScores[j]
          /\ CallScores[j] > 0
          /\ CallScores[k] = 0
          /\ call.results[1].id = CallIndex[i].id
          /\ i > j

\* The index with the p-th token of its i-th document replaced by the term.
Replaced(index, i, p, term) == [index EXCEPT ![i].tokens[p] = term]

\* The score of the i-th document of an index for the query tokens.
ScoreIn(index, i, queryTokens) ==
    score(index, index[i].tokens, queryTokens, Len(index[i].tokens))

\* C19: replacing, in one document of the index, a token that is no query token
\* by a query token (which keeps the token count of the document and of the
\* corpus, and raises the frequency of that query token) never lowers the
\* score of that document for the query.
C19_ScoreMonotoneInTermFreq ==
    call.op = "bm25" =>
        LET index == CallIndex
            queryTokens == tokenize(call.query)
        IN \A i \in 1..Len(index) :
             \A p \in 1..Len(index[i].tokens), q \in 1..Len(queryTokens) :
                (\A q2 \in 1..Len(queryTokens) : index[i].tokens[p] # queryTokens[q2]) =>
                    ScoreIn(Replaced(index, i, p, queryTokens[q]), i, queryTokens)
                        >= ScoreIn(index, i, queryTokens)

\* A document that holds a query token once and another token that is no query
\* token; replacing the latter raises the frequency from 1 to 2 and the score.
C19_Witness ==
    /\ call.op = "bm25"
    /\ LET index == CallIndex
           queryTokens == tokenize(call.query)
       IN \E i \in 1..Len(index) :
            \E p \in 1..Len(index[i].tokens), q \in 1..Len(queryTokens) :
                /\ \A q2 \in 1..Len(queryTokens) : index[i].tokens[p] # queryTokens[q2]
                /\ termFreq(index[i].tokens, queryTokens[q]) = 1
                /\ Len(index) >= 2
                /\ ScoreIn(Replaced(index, i, p, queryTokens[q]), i, queryTokens)
                        > ScoreIn(index, i, queryTokens)

\* --------------------------------------- hybridSearch, embeddings of any length
\* Stored embeddings and query embeddings of one and of two components.
DimensionEmbeddings == {<<1, 0>>, <<1>>}

\* A query of one plain term and one whose term is no valid pattern.
DimensionQueries == {<<"a", "a", "b">>, <<"+", "a", "b">>}

InitDimension ==
    /\ documents \in CatalogsFrom(<<"d1", "d2">>, RankContents, DimensionEmbeddings,
                                  MaxDimensionChunks)
    /\ InitRest

\* One call in each behaviour.
NextDimension ==
    /\ call.op = "none"
    /\ Search(DimensionQueries, DimensionEmbeddings, {ChatTopK})

SpecDimension == InitDimension /\ [][NextDimension]_vars

\* The stored chunks whose embedding has another length than the query's.
Mismatched(queryEmbedding) ==
    {i \in 1..Len(getAllChunks(documents)) :
        Len(getAllChunks(documents)[i].embedding) # Len(queryEmbedding)}

\* C20: cosineSimilarity gives the error "Vectors must have the same length"
\* for every two vectors of different lengths, and a call of hybridSearch with
\* a query embedding whose length differs from that of a stored chunk
\* embedding ends with that error, with no results, and with the catalog as it
\* was.
C20_MismatchFails ==
    [][call'.op = "hybridSearch" =>
        LET allChunks == getAllChunks(documents)
            queryEmbedding == call'.queryEmbedding
        IN /\ \A i \in Mismatched(queryEmbedding) :
                cosineSimilarity(queryEmbedding, allChunks[i].embedding).err
                    = "Vectors must have the same length"
           /\ Mismatched(queryEmbedding) # {} =>
                /\ call'.err = "Vectors must have the same length"
                /\ call'.results = <<>>
                /\ documents' = documents]_vars

\* ------------------------------------------------- the scorers, as specified
\* C21: for the query embedding and every stored embedding of the same length,
\* cosineSimilarity returns a number between -1 and 1 (in thousandths), and
\* not NaN.
C21_CosineInRange ==
    call.op = "hybridSearch" =>
        \A i \in 1..Len(getAllChunks(documents)) :
            LET embedding == getAllChunks(documents)[i].embedding
                similarity == cosineSimilarity(call.queryEmbedding, embedding)
            IN Len(embedding) = Len(call.queryEmbedding) =>
                  /\ similarity.err = ""
                  /\ ~similarity.val.nan
                  /\ similarity.val.x \in -1000..1000

\* The number of occurrences of the term as a literal substring of the text,
\* counted from the left without overlap.
RECURSIVE LiteralCount(_, _, _)
LiteralCount(term, text, i) ==
    IF i + Len(term) - 1 > Len(text) THEN 0
    ELSE IF SubSeq(text, i, i + Len(term) - 1) = term
    THEN 1 + LiteralCount(term, text, i + Len(term))
    ELSE LiteralCount(term, text, i + 1)

\* C22: the call raises no error, and for every query term of length >= 3 and
\* every chunk the occurrence count of the keyword score is the number of
\* occurrences of the lower-cased term as a literal substring of the
\* lower-cased chunk text.
C22_LiteralOccurrences ==
    call.op = "hybridSearch" =>
        /\ call.err = ""
        /\ \A k \in 1..Len(getAllChunks(documents)) :
             LET textLower == toLowerCase(getAllChunks(documents)[k].content)
             IN \A i \in UsedTerms(CallTerms) :
                  matchCount(CallTerms[i], textLower)
                      = LiteralCount(CallTerms[i], textLower, 1)

\* The keyword score of the specification, in thousandths: the query's tokens
\* by the rule of the lexical index, n their number, m the number of them that
\* occur in the lower-cased text, acc the sum of ln(1 + occurrences).
SpecifiedKeywordScore(query, text) ==
    LET tokens == tokenize(query)
        n == Len(tokens)
        occurrences == [i \in 1..n |-> LiteralCount(tokens[i], toLowerCase(text), 1)]
        m == Cardinality({i \in 1..n : occurrences[i] > 0})
        acc == SumSeq([i \in 1..n |-> Ln1000(1 + occurrences[i])])
    IN Min(1000, (acc + 1000 * m) \div (2 * Max(1, n)))

\* C23: in every result keywordScore lies between 0 and 1 and is the keyword
\* score of the specification; and when the query has a token of length >= 3
\* and every such token occurs in the chunk, keywordScore is at least 0.5.
C23_KeywordScoreAsSpecified ==
    call.op = "hybridSearch" =>
        \A k \in 1..Len(call.results) :
            LET r == call.results[k]
                tokens == tokenize(call.query)
            IN /\ r.keywordScore \in 0..1000
               /\ r.keywordScore = SpecifiedKeywordScore(call.query, r.chunk.content)
               /\ (/\ tokens # <<>>
                   /\ \A i \in 1..Len(tokens) :
                         includes(toLowerCase(r.chunk.content), tokens[i]))
                      => r.keywordScore >= 500

\* ------------------------------------------------- the cuts of chunkText
\* The offsets p of the window [searchStart, endIndex) at which a sentence
\* terminator lies wholly within the window.
TerminatorsIn(normalizedText, searchStart, endIndex) ==
    {p \in searchStart..(endIndex - 2) :
        /\ p + 2 <= Len(normalizedText)
        /\ normalizedText[p + 1] \in {".", "!", "?"}
        /\ normalizedText[p + 2] = " "}

SetMax(S) == CHOOSE x \in S : \A y \in S : y <= x

\* The cut as specified: just after the last terminator of the last 200
\* characters of the candidate range, or the end of the candidate range when
\* that window holds no terminator.
SpecifiedCut(normalizedText, startIndex, maxChunkSize) ==
    LET endIndex == startIndex + maxChunkSize
        searchStart == Max(startIndex, endIndex - SentenceWindow)
        terminators == TerminatorsIn(normalizedText, searchStart, endIndex)
    IN IF terminators # {} THEN SetMax(terminators) + 2 ELSE endIndex

\* C24: every iteration whose candidate range ends before the end of the
\* normalized text cuts just after the last sentence terminator found at any
\* position of the last 200 characters of the candidate range, and at
\* start + maxChunkSize only when that window holds no terminator.
C24_CutAfterLastTerminator ==
    \A i \in 1..Len(ck.ranges) :
        LET r == ck.ranges[i]
        IN r.start + ck.maxChunkSize < Len(ck.normalizedText) =>
              r.end = SpecifiedCut(ck.normalizedText, r.start, ck.maxChunkSize)

\* The chunk pushed by iteration i, which did push one.
ChunkOf(i) == ck.chunks[Cardinality({j \in 1..i : ck.ranges[j].pushed})]

\* Iteration i is followed by an iteration that starts overlapSize before its cut.
Overlaps(i) ==
    /\ i + 1 <= Len(ck.ranges)
    /\ ck.ranges[i].end - ck.overlapSize > ck.ranges[i].start

\* The last overlapSize characters of the range of iteration i.
OverlapText(i) ==
    substring(ck.normalizedText, ck.ranges[i].end - ck.overlapSize, ck.ranges[i].end)

\* The start of every iteration after the first is the cut of the one before
\* less overlapSize, or that cut itself when the difference is not past the
\* start of the one before.
StartRule ==
    \A i \in 1..(Len(ck.ranges) - 1) :
        LET r == ck.ranges[i]
        IN ck.ranges[i + 1].start =
              IF r.end - ck.overlapSize <= r.start THEN r.end
              ELSE r.end - ck.overlapSize

\* C25 as stated: the start rule, and the chunk of the next iteration begins
\* with the last overlapSize characters of the range before.  The chunk is
\* trimmed, so an overlap that starts with a space is not how it begins.
C25_NextChunkBeginsWithTail ==
    /\ StartRule
    /\ \A i \in 1..Len(ck.ranges) :
          (Overlaps(i) /\ ck.ranges[i + 1].pushed) => IsPrefix(OverlapText(i), ChunkOf(i + 1))

\* C25: for consecutive iterations of chunkText (maxChunkSize >= 1,
\* overlapSize >= 0) the next range starts at end_i - overlapSize, except when
\* end_i - overlapSize <= start_i, where it starts at end_i; in the first case
\* the next range begins where the last overlapSize characters of the range
\* before begin, and the chunk it pushes is the text from there to its own cut
\* with the whitespace at both ends trimmed.
C25_NextStartsAtOverlap ==
    /\ StartRule
    /\ \A i \in 1..Len(ck.ranges) :
          (Overlaps(i) /\ ck.ranges[i + 1].pushed) =>
              ChunkOf(i + 1) = trim(substring(ck.normalizedText,
                                              ck.ranges[i].end - ck.overlapSize,
                                              ck.ranges[i + 1].end))

\* A call returned after an iteration that started an overlap before the cut
\* of the one before, on a space that its chunk lost, and after an iteration
\* that started at the cut of the one before.
C25_Witness ==
    /\ ck.pc = "done"
    /\ \E i \in 1..Len(ck.ranges) :
          /\ Overlaps(i)
          /\ ck.overlapSize > 0
          /\ ck.ranges[i + 1].pushed
          /\ ~IsPrefix(OverlapText(i), ChunkOf(i + 1))
    /\ \E i \in 1..(Len(ck.ranges) - 1) :
          /\ ~Overlaps(i)
          /\ ck.ranges[i + 1].start = ck.ranges[i].end

\* C26: in the chunks chunkText returns, every chunk after the first extends
\* past the cut of the chunk before it: the cuts of the iterations that pushed
\* a chunk strictly increase, and no such range lies within the one before.
C26_CutsIncrease ==
    ck.pc = "done" =>
        \A i, j \in 1..Len(ck.ranges) :
            (i < j /\ ck.ranges[i].pushed /\ ck.ranges[j].pushed) =>
                ck.ranges[j].end > ck.ranges[i].end

\* C27: for maxChunkSize >= 1 and overlapSize >= 0 the ranges of the loop
\* cover every offset of the normalized text, and every character of it that
\* is not a space lies in a range whose trimmed text is a returned chunk; a
\* text returned as a single chunk is returned whole.
C27_RangesCover ==
    ck.pc = "done" =>
        /\ ck.ranges = <<>> =>
              (ck.normalizedText = <<>> \/ ck.chunks = <<ck.normalizedText>>)
        /\ ck.ranges # <<>> =>
              \A p \in 0..(Len(ck.normalizedText) - 1) :
                  /\ \E i \in 1..Len(ck.ranges) :
                        ck.ranges[i].start <= p /\ p < ck.ranges[i].end
                  /\ ck.normalizedText[p + 1] # " " =>
                        \E i \in 1..Len(ck.ranges) :
                            /\ ck.ranges[i].start <= p /\ p < ck.ranges[i].end
                            /\ ck.ranges[i].pushed
                            /\ ChunkOf(i) = trim(substring(ck.normalizedText,
                                                           ck.ranges[i].start,
                                                           ck.ranges[i].end))

\* A call returned after three iterations or more, one of which cut after a
\* sentence terminator and one of which pushed a chunk shorter than its range.
C27_Witness ==
    /\ ck.pc = "done"
    /\ Len(ck.ranges) >= 3
    /\ \E i \in 1..Len(ck.ranges) :
          /\ ck.ranges[i].pushed
          /\ Len(ChunkOf(i)) < ck.ranges[i].end - ck.ranges[i].start
    /\ \E i \in 1..Len(ck.ranges) :
          ck.ranges[i].end < ck.ranges[i].start + ck.maxChunkSize
          /\ ck.ranges[i].end < Len(ck.normalizedText)

\* ------------------------------------------------ the registry, id reused
\* C28: when a request has taken over the requestId of an earlier request,
\* the registry entry of that id stays the later request's controller through
\* every step that is not the later request's own: the earlier request's
\* completion, failure or cancelled response stream does not remove it.
C28_ReusedIdKeptForLater ==
    [][\A s \in Sessions, requestId \in RequestIds :
        (/\ activeRequests[requestId] = s
         /\ ~HasEnded(s)
         /\ sess'[s] = sess[s]
         /\ \E t \in Sessions : t < s /\ sess[t].requestId = requestId)
        => activeRequests'[requestId] = s]_vars

\* C29: when a step of DELETE or of the consumer of a request's response
\* stream removes the request's controller from the registry while its
\* generation has not finished, the request's signal is tripped after the step.
C29_RemovedMeansAborted ==
    [][\A s \in Sessions, requestId \in RequestIds :
        (/\ activeRequests[requestId] = s
         /\ activeRequests'[requestId] = None
         /\ sess'[s] # sess[s]
         /\ ~HasEnded(s)
         /\ sess'[s].pc # "done")
        => sess'[s].aborted]_vars

\* ------------------------------------------------- the page reads a response
\* The delimiter of the metadata header.
Delimiter == <<"_", "_", "M", "E", "T", "A", "_", "_">>

\* JSON.stringify(metadata), for the metadata of a response with n citations.
JSONstringify(metadata) == <<"{", ToString(metadata.citations), "}">>

\* JSON.parse(text): the object a serialisation stands for; any other text
\* of these characters throws.
JSONparse(text) ==
    LET objects == {[type |-> "metadata", citations |-> n] : n \in 1..MaxCitations}
        parsed == {m \in objects : JSONstringify(m) = text}
    IN IF parsed = {} THEN [err |-> TRUE, val |-> NoMetadata]
       ELSE [err |-> FALSE, val |-> CHOOSE m \in parsed : TRUE]

\* TextEncoder.encode: UTF-8, one byte per ASCII character and the two bytes
\* C3 A9 for the character U+00E9.
RECURSIVE encode(_)
encode(text) ==
    IF text = <<>> THEN <<>>
    ELSE (IF Head(text) = "eacute" THEN <<"C3", "A9">> ELSE <<Head(text)>>)
         \o encode(Tail(text))

\* The decoder over the bytes of value from index i on: text is what it has
\* completed, pending the lead byte it holds.
RECURSIVE DecodeFrom(_, _, _, _)
DecodeFrom(pending, value, i, text) ==
    IF i > Len(value) THEN [text |-> text, pending |-> pending]
    ELSE LET b == value[i]
         IN IF pending = <<"C3">>
            THEN IF b = "A9"
                 THEN DecodeFrom(<<>>, value, i + 1, Append(text, "eacute"))
                 ELSE DecodeFrom(<<>>, value, i, Append(text, "FFFD"))
            ELSE IF b = "C3" THEN DecodeFrom(<<"C3">>, value, i + 1, text)
            ELSE IF b = "A9" THEN DecodeFrom(<<>>, value, i + 1, Append(text, "FFFD"))
            ELSE DecodeFrom(<<>>, value, i + 1, Append(text, b))

\* decoder.decode(value, {stream: true}): the characters completed by the
\* bytes, and the bytes of an incomplete character held for the next call.
decode(pending, value) == DecodeFrom(pending, value, 1, <<>>)

\* The delimiter lies at index i of the text.
DelimAt(text, i) ==
    /\ i + Len(Delimiter) - 1 <= Len(text)
    /\ SubSeq(text, i, i + Len(Delimiter) - 1) = Delimiter

\* The indices at which a closing delimiter ends (.+?) for an opening
\* delimiter at i: one character or more, none a line break, lie between.
MetaEnds(text, i) ==
    {j \in (i + Len(Delimiter) + 1)..Len(text) :
        /\ DelimAt(text, j)
        /\ \A k \in (i + Len(Delimiter))..(j - 1) : text[k] # "\n"}

SetMin(S) == CHOOSE x \in S : \A y \in S : x <= y

\* chunk.match(/__META__(.+?)__META__/): the leftmost match with the
\* shortest group.
match(chunk) ==
    LET starts == {i \in 1..Len(chunk) : DelimAt(chunk, i) /\ MetaEnds(chunk, i) # {}}
    IN IF starts = {} THEN [found |-> FALSE, group |-> <<>>]
       ELSE LET i == SetMin(starts)
                j == SetMin(MetaEnds(chunk, i))
            IN [found |-> TRUE, group |-> SubSeq(chunk, i + Len(Delimiter), j - 1)]

\* The closing delimiters of MetaEnds that two line breaks follow.
CleanEnds(text, i) ==
    {j \in MetaEnds(text, i) :
        /\ j + Len(Delimiter) + 1 <= Len(text)
        /\ text[j + Len(Delimiter)] = "\n"
        /\ text[j + Len(Delimiter) + 1] = "\n"}

\* chunk.replace(/__META__.+?__META__\n\n/, ""): the leftmost match is
\* removed; the chunk is returned as it is when there is none.
replace(chunk) ==
    LET starts == {i \in 1..Len(chunk) : DelimAt(chunk, i) /\ CleanEnds(chunk, i) # {}}
    IN IF starts = {} THEN chunk
       ELSE LET i == SetMin(starts)
                j == SetMin(CleanEnds(chunk, i))
            IN SubSeq(chunk, 1, i - 1)
               \o SubSeq(chunk, j + Len(Delimiter) + 2, Len(chunk))

RECURSIVE Concat(_)
Concat(texts) == IF texts = <<>> THEN <<>> ELSE Head(texts) \o Concat(Tail(texts))

\* The bytes customStream.start enqueues: the metadata header when there are
\* citations, then every text of the generator.
ResponseBody(metadata, tokens) ==
    (IF metadata.citations > 0
     THEN encode(Delimiter \o JSONstringify(metadata) \o Delimiter \o <<"\n", "\n">>)
     ELSE <<>>)
    \o encode(Concat(tokens))

\* The body of the while loop for one read of n bytes.
Read(n) ==
    /\ reader.pc = "reading"
    /\ reader.pos < Len(reader.body)
    /\ n \in 1..(Len(reader.body) - reader.pos)
    /\ LET value == SubSeq(reader.body, reader.pos + 1, reader.pos + n)
           decoded == decode(reader.pending, value)
           chunk == decoded.text
           read == [reader EXCEPT !.pos = reader.pos + n,
                                  !.pending = decoded.pending]
       IN reader' =
            IF ~reader.metadataCollected /\ includes(chunk, Delimiter)
            THEN LET metaMatch == match(chunk)
                     parsed == JSONparse(metaMatch.group)
                 IN IF ~metaMatch.found THEN read
                    ELSE IF parsed.err
                    THEN [read EXCEPT !.assistantMessage = @ \o chunk]
                    ELSE [read EXCEPT !.metadata = parsed.val,
                                      !.metadataCollected = TRUE,
                                      !.assistantMessage = @ \o replace(chunk)]
            ELSE [read EXCEPT !.assistantMessage = @ \o chunk]
    /\ UNCHANGED <<documents, persisted, store, up, call, ck, activeRequests,
                   sess, lastDelete, thrown>>

\* reader.read() answers done: the loop is left.
ReadDone ==
    /\ reader.pc = "reading"
    /\ reader.pos = Len(reader.body)
    /\ reader' = [reader EXCEPT !.pc = "done"]
    /\ UNCHANGED <<documents, persisted, store, up, call, ck, activeRequests,
                   sess, lastDelete, thrown>>

\* The texts of a generator: one character each, one of two bytes among them.
ReadTokens == TextsUpTo({<<"a">>, <<"eacute">>}, MaxReadTokens)

InitClient ==
    /\ documents = <<>>
    /\ call = NoCall
    /\ ck = IdleChunker
    /\ activeRequests = [r \in RequestIds |-> None]
    /\ sess = [s \in Sessions |-> IdleSession]
    /\ lastDelete = NoDelete
    /\ thrown = NoThrow
    /\ persisted = NoFile
    /\ store = Constructed
    /\ up = [u \in Uploads |-> IdleUpload]
    /\ \E n \in 0..MaxCitations, tokens \in ReadTokens :
          LET sent == IF n = 0 THEN NoMetadata
                      ELSE [type |-> "metadata", citations |-> n]
          IN reader = [IdleReader EXCEPT !.pc = "reading",
                                         !.body = ResponseBody(sent, tokens),
                                         !.sent = sent,
                                         !.tokens = tokens]

NextClient ==
    \/ \E n \in 1..Len(reader.body) : Read(n)
    \/ ReadDone

SpecClient == InitClient /\ [][NextClient]_vars

\* C30: however the bytes of the response are split into reads, when the
\* stream is done the assistant message is the concatenation of the
\* generator's texts, and the metadata is the parsed header when one was sent.
C30_MessageReassembled ==
    reader.pc = "done" =>
        /\ reader.assistantMessage = Concat(reader.tokens)
        /\ reader.metadata = reader.sent

====
